---- MODULE Spec2Model ----
(***************************************************************************)
(* One BLEHandler session of the Rayonics key reader (src/ble_handler.py)  *)
(* driven by the WebSocket loop of src/server.py / src/app.py.             *)
(*                                                                         *)
(* Granularity: asyncio runs one coroutine at a time, so the code between  *)
(* two awaits is atomic.  A task's pc names the await it is suspended in   *)
(* ("L218" = the await on line 218 of ble_handler.py).  One step of a task *)
(* takes the result of that await, runs the synchronous code that follows  *)
(* and issues the next awaited operation (a message handed to the socket,  *)
(* a frame handed to the BLE stack, a sleep, a wait).  Between two steps   *)
(* the environment may act: the device notifies, the link drops, a         *)
(* message arrives on the socket.                                          *)
(*                                                                         *)
(* AES-128-ECB is modelled symbolically: a frame carries the key it was    *)
(* encrypted under and its plaintext; decrypting under another key, or     *)
(* decrypting a misaligned buffer, yields an arbitrary plaintext.          *)
(***************************************************************************)
EXTENDS Integers, Sequences, FiniteSets, TLC

----------------------------------------------------------------------------
(* Bounds of the model *)

NumTasks == 2
MaxInbox == 1
MaxPending == 1
MaxEvents == 1

(* Program constants *)

CONNECT_AUTH == 13
VERIFY_CODE == 15
GET_KEY_INFO == 17
GET_EVENT_COUNT == 38
GET_EVENT == 39
CLEAN_EVENT == 40
GET_KEY_VERSION == 52
FrameLen == 19
SeedLen == 15
RejectLen == 4
OtherLen == 7
HeadLen == 10

None == "None"
NoKey == [kind |-> "none", x |-> 0, sys |-> <<>>]
NoNonce == -1
NoPlain == [len |-> 0, p2 |-> 0]
NoFrame == [key |-> NoKey, len |-> 0, p2 |-> 0, cur |-> FALSE, sound |-> FALSE]
NoMsg == [action |-> "None"]
AES_KEY == [kind |-> "system", x |-> 0, sys |-> <<>>]
SYSCODE == <<17, 17, 27, 251>>
REGCODE == <<17, 17, 27, 251>>

Tasks == 1..NumTasks
Addresses == {"A"}
Nonces == 0..1
Seeds == {0, 1}
Codes == {0, 1}
Counts == 0..MaxEvents
RespLens == {SeedLen, RejectLen, OtherLen}
CmdLayer == {GET_KEY_INFO, GET_KEY_VERSION, GET_EVENT_COUNT, GET_EVENT, CLEAN_EVENT}

----------------------------------------------------------------------------
VARIABLES
    client,          \* self._client: None, or the address the BleakClient was made for
    linkUp,          \* self._client.is_connected
    notifying,       \* start_notify has registered _on_notify on this client
    device,          \* self._device
    session_key,     \* self._session_key
    authenticated,   \* self._authenticated
    response,        \* self._response: the chunks received since the last clear()
    response_event,  \* self._response_event.is_set()
    scanned,         \* self._scanned (its key set)
    tk,              \* the handle() tasks of the session
    inbox,           \* the messages received on the socket and not yet read by
                     \* the loop, oldest first; of each, whether a command
                     \* exchange was in flight when it arrived ("inflight",
                     \* else "early") and has since ended by its response or
                     \* its timeout ("outlasted") (history)
    devq,            \* frames the device has received and not yet answered
    devPart,         \* the frame whose first chunk the device has sent, or NoFrame
    link,            \* history: what was received on the current link
    ws,              \* the WebSocket of the session: "open"; "closed", and a
                     \* send on it raises ConnectionClosed; "ended" once the
                     \* loop over its messages is over
    codec            \* a call of build_packet followed by parse_packet: its
                     \* arguments and, once computed, the plaintext block, the
                     \* packet and the parsed tuple (used by SpecCodec only)
    ,
    sdk              \* a RayonicsSDK object (rayonics_ble/sdk.py): its fields,
                     \* the await its running method is at, and the last
                     \* frame send_command built (used by SpecSdk only)
    ,
    web              \* the WebServer object of app.py: its fields (used by
                     \* SpecWeb only)

sess == <<client, linkUp, notifying, device, session_key, authenticated>>
buf == <<response, response_event>>
dev == <<devq, devPart>>
hist == <<link>>
vars == <<sess, buf, scanned, tk, inbox, dev, hist, ws, codec, sdk, web>>

----------------------------------------------------------------------------
(* Codec, symbolic *)

RECURSIVE XorNat(_, _)
XorNat(a, b) ==
    IF a = 0 /\ b = 0 THEN 0
    ELSE ((a + b) % 2) + 2 * XorNat(a \div 2, b \div 2)

(* bytes 0-9 nonce XOR seed, bytes 10-13 syscode, bytes 14-15 a CRC of the
   first 14 (a function of the other two fields, so not carried here);
   suffix and regcode are not used. *)
derive_session_key_v2(nonce, suffix, seed, syscode, regcode) ==
    [kind |-> "session", x |-> XorNat(nonce, seed), sys |-> syscode]

(* A faulty variant of FrameTag: every frame is tagged 1. *)
FrameTagMut(key, frame) == 1

(* build_packet's frame byte: the caller's, or chosen from the key. *)
FrameTag(key, frame) ==
    IF frame = 0 THEN (IF key # NoKey THEN 2 ELSE 1) ELSE frame

(* build_packet: the frame byte, the key the block is encrypted under
   ("key or AES_KEY"), and the plaintext's command and payload. *)
build_packet(cmd, payload, key, frame) ==
    [tag |-> FrameTag(key, frame),
     key |-> IF key = NoKey THEN AES_KEY ELSE key,
     cmd |-> cmd,
     payload |-> payload]

(* A decrypted block, as far as the handler reads it: byte 0 (the length)
   and byte 2 (seed, error code, status, count). *)
Plains == [len : RespLens, p2 : Codes \cup Counts]

ChunkLen(c) == IF c.part = "all" THEN FrameLen
               ELSE IF c.part = "head" THEN HeadLen ELSE FrameLen - HeadLen

RECURSIVE BufLen(_)
BufLen(b) == IF b = <<>> THEN 0 ELSE ChunkLen(Head(b)) + BufLen(Tail(b))

(* The frame whose bytes 1..16 are bytes 1..16 of the buffer, or None when
   the buffer starts in the middle of a frame. *)
FirstFrame(b) ==
    IF b = <<>> THEN NoFrame
    ELSE IF b[1].part = "all" THEN b[1].f
    ELSE IF b[1].part = "head" /\ Len(b) >= 2 /\ b[2].part = "tail" /\ b[2].f = b[1].f
         THEN b[1].f
    ELSE NoFrame

(* History: bytes 1..16 of the buffer are the key's reply to the latest
   write. *)
OwnResponse(b) == FirstFrame(b) # NoFrame /\ FirstFrame(b).cur

(* History: the first 19 bytes of the buffer are a frame whose trailing
   CRC16 matches its bytes 0..16 and whose plaintext carries the right XOR
   byte (crypto.py 197-206: what parse_packet would report as valid). *)
Sound(b) == FirstFrame(b) # NoFrame /\ FirstFrame(b).sound

(* aes_decrypt(resp[1:17], key or AES_KEY): the plaintexts it can return. *)
aes_decrypt(b, key) ==
    LET f == FirstFrame(b)
        k == IF key = NoKey THEN AES_KEY ELSE key
    IN IF f # NoFrame /\ f.key = k
       THEN {[len |-> f.len, p2 |-> f.p2]}
       ELSE Plains

----------------------------------------------------------------------------
(* Codec, byte by byte (crypto.py) *)

(* build_packet's payloads are at most 12 bytes long. *)
MaxPayload == 12

(* AES_KEY, b"RAYONICSBLEKEYV2". *)
AES_KEY_BYTES == <<82, 65, 89, 79, 78, 73, 67, 83, 66, 76, 69, 75, 69, 89, 86, 50>>

(* The inputs of the codec runs: command codes, payloads of every length
   from 0 to MaxPayload, and as key None (written <<>>) or 16 bytes. *)
CodecCmds == {0, VERIFY_CODE, GET_EVENT, 255}
CodecPayloads ==
    {[i \in 1..n |-> (s + 37 * i) % 256] : n \in 0..MaxPayload, s \in {0, 201}}
CodecKeys == {<<>>, [i \in 1..16 |-> (7 * i + 3) % 256]}

(* crc16: CRC16 with the reflected polynomial 0x8408, register 0xFFFF at the
   start, complemented at the end.  CrcBits is the inner loop (the XOR with
   0x8408 flips bits 15, 10 and 3 of the shifted register, bit 15 being 0
   after the shift), CrcBytes the outer one. *)
FlipBit(v, b) == IF (v \div b) % 2 = 1 THEN v - b ELSE v + b

RECURSIVE CrcBits(_, _)
CrcBits(crc, n) ==
    IF n = 0 THEN crc
    ELSE IF crc % 2 = 1
         THEN CrcBits(FlipBit(FlipBit(FlipBit(crc \div 2, 32768), 1024), 8), n - 1)
         ELSE CrcBits(crc \div 2, n - 1)

RECURSIVE CrcBytes(_, _)
CrcBytes(data, n) ==
    IF n = 0 THEN 65535
    ELSE CrcBits(XorNat(CrcBytes(data, n - 1), data[n] % 256), 8)

(* A faulty variant of crc16: the register is not complemented at the end. *)
crc16Mut(data) == CrcBytes(data, Len(data)) % 65536

crc16(data) == XorNat(CrcBytes(data, Len(data)), 65535) % 65536

(* xor_checksum: the XOR of all bytes. *)
RECURSIVE xor_checksum(_)
xor_checksum(data) ==
    IF Len(data) = 0 THEN 0 ELSE XorNat(Head(data), xor_checksum(Tail(data)))

(* AES-128-ECB is not computed: it is replaced by another permutation of
   the 16-byte blocks for each key (the bytes moved one place round and the
   key added to them), of which the codec uses only that aes_decrypt undoes
   aes_encrypt under the same key.  "key or AES_KEY": None and the empty
   key give the system key. *)
KeyOrDefault(key) == IF Len(key) = 0 THEN AES_KEY_BYTES ELSE key

(* aes_encrypt: data padded with zeros to 16 bytes and cut there (line 69). *)
aes_encrypt(data, key) ==
    LET padded == [i \in 1..16 |-> IF i <= Len(data) THEN data[i] ELSE 0]
    IN [i \in 1..16 |-> (padded[(i % 16) + 1] + KeyOrDefault(key)[i]) % 256]

(* aes_decrypt on bytes. *)
aes_decrypt_block(data, key) ==
    [j \in 1..16 |->
        LET i == ((j + 14) % 16) + 1
        IN (data[i] + 256 - KeyOrDefault(key)[i]) % 256]

(* A faulty variant of PacketLength: length + 3 for every payload. *)
PacketLengthMut(n) == n + 3

(* build_packet, lines 132-135: the length byte for a payload of n bytes. *)
PacketLength(n) == IF n = 9 THEN n + 2 ELSE n + 3

(* build_packet, lines 137-148: the 16-byte plaintext block. *)
PacketPlaintext(cmd, payload) ==
    LET data == <<PacketLength(Len(payload)), cmd>> \o payload
        xor_pos == Len(payload) + 2
        xor == xor_checksum(data)
    IN [i \in 1..16 |-> IF i = xor_pos + 1 THEN xor
                        ELSE IF i <= Len(data) THEN data[i] ELSE 0]

(* build_packet, lines 150-157: frame byte, encrypted block, CRC16 low
   byte first. *)
SealPacket(frame, plaintext, key) ==
    LET frame_enc == <<frame>> \o aes_encrypt(plaintext, key)
        crc == crc16(frame_enc)
    IN frame_enc \o <<crc % 256, crc \div 256>>

(* build_packet, lines 127-157, with frame = None. *)
build_packet_bytes(cmd, payload, key) ==
    SealPacket(IF key # <<>> THEN 2 ELSE 1, PacketPlaintext(cmd, payload), key)

(* A faulty variant of CrcOk: the trailing CRC16 is not looked at. *)
CrcOkMut(data) == TRUE

(* parse_packet, lines 180-185: the trailing little-endian CRC16 is the
   CRC16 of bytes 0..16. *)
CrcOk(data) == data[18] + 256 * data[19] = crc16(SubSeq(data, 1, 17))

(* parse_packet: (cmd, payload, valid); the fourth component, the raw
   plaintext, is left out. *)
parse_packet(data, key) ==
    LET invalid == [cmd |-> 0, payload |-> <<>>, valid |-> FALSE]
        plaintext == aes_decrypt_block(SubSeq(data, 2, 17), key)
        length == plaintext[1]
        payload_end == IF length - 1 < 14 THEN length - 1 ELSE 14
        xor_recv == plaintext[15]
        xor_calc == xor_checksum(SubSeq(plaintext, 1, 14))
    IN IF Len(data) # FrameLen THEN invalid
       ELSE IF ~CrcOk(data) THEN invalid
       ELSE IF length < 3 \/ length > 15
            THEN [cmd |-> plaintext[2], payload |-> SubSeq(plaintext, 3, 14),
                  valid |-> FALSE]
       ELSE [cmd |-> plaintext[2], payload |-> SubSeq(plaintext, 3, payload_end),
             valid |-> (xor_recv = xor_calc)]

(* A faulty variant of KeyXor: the seed is read two bytes further on. *)
KeyXorMut(nonce, seed) == [i \in 1..10 |-> XorNat(nonce[i], seed[i + 2])]

(* derive_session_key_v2, lines 291-292: nonce XOR seed, ten bytes. *)
KeyXor(nonce, seed) == [i \in 1..10 |-> XorNat(nonce[i], seed[i])]

(* derive_session_key_v2 on bytes: nonce XOR seed, the first four bytes of
   syscode put in place of bytes 10..13, the CRC16 of the first 14 bytes
   low byte first. *)
derive_key_bytes(nonce, suffix, seed, syscode, regcode) ==
    LET sys4 == SubSeq(syscode, 1, IF Len(syscode) < 4 THEN Len(syscode) ELSE 4)
        key14 == KeyXor(nonce, seed) \o sys4
        crc == crc16(SubSeq(key14, 1, 14))
    IN key14 \o <<crc % 256, (crc \div 256) % 256>>

(* A faulty variant of ConnectPacket: session tag, no CRC suffix. *)
ConnectPacketMut(nonce) ==
    SealPacket(2, PacketPlaintext(CONNECT_AUTH, nonce \o <<0, 0>>), <<>>)

(* connect, lines 211-217: the CONNECT packet for a nonce,
   build_packet(CONNECT_AUTH, nonce + suffix, key=None, frame=0x01). *)
ConnectPacket(nonce) ==
    LET nonce_crc == crc16(nonce)
        suffix == <<nonce_crc % 256, (nonce_crc \div 256) % 256>>
    IN SealPacket(1, PacketPlaintext(CONNECT_AUTH, nonce \o suffix), <<>>)

(* connect, lines 252-253: the VERIFY packet under the session key. *)
VerifyPacket(key) == build_packet_bytes(VERIFY_CODE, REGCODE \o SYSCODE \o <<4>>, key)

(* A faulty variant of bcd: the byte is taken as a binary number. *)
bcdMut(b) == b

(* _parse_event, lines 402-403: two decimal digits in one byte. *)
bcd(b) == ((b \div 16) * 10) + (b % 16)

(* _parse_event: the decoded event; time is the text "YYYY-MM-DD hh:mm:ss"
   as its six numbers, each a sequence of decimal digits (":02d": two
   digits at least), eventName the table's name or <<"Unknown", N>>. *)
parse_event(data) ==
    LET Pad2(n) == IF n < 100 THEN <<n \div 10, n % 10>>
                   ELSE <<n \div 100, (n \div 10) % 10, n % 10>>
        year == 2000 + bcd(data[6])
        event_type == data[12]
        names == <<"Unknown", "Open Success", "Open Fail", "Set Success", "Set Fail",
                   "No Permission", "Blacklisted", "Time Expired", "Outside Schedule",
                   "Read Audit", "Read Blacklist", "Sequence Open", "Sequence Cancel",
                   "Emergency Open", "Power On", "Low Battery", "Tamper", "Lock Locked",
                   "Lock Unlocked">>
    IN IF Len(data) < 12 THEN [raw |-> data]
       ELSE [time |-> <<<<year \div 1000, (year \div 100) % 10, (year \div 10) % 10,
                         year % 10>>,
                       Pad2(bcd(data[7])), Pad2(bcd(data[8])), Pad2(bcd(data[9])),
                       Pad2(bcd(data[10])), Pad2(bcd(data[11]))>>,
             lockId |-> data[4] + 256 * data[5],
             keyId |-> data[1] + 256 * data[2],
             event |-> event_type,
             eventName |-> IF event_type + 1 \in DOMAIN names
                           THEN <<names[event_type + 1]>>
                           ELSE <<"Unknown", event_type>>]

(* The event payloads of the runs of _parse_event: one with the time bytes
   0F 0E 1E, the same moment in BCD, an unknown event type with large key
   and lock numbers, and a payload one byte short. *)
EventPayloads ==
    {<<42, 0, 0, 5, 0, 36, 1, 15, 14, 30, 0, 1>>,
     <<42, 0, 0, 5, 0, 36, 1, 21, 20, 48, 0, 1>>,
     <<57, 48, 7, 254, 255, 153, 18, 49, 35, 89, 89, 200>>,
     <<42, 0, 0, 5, 0, 36, 1, 21, 20, 48, 0>>}

(* The arguments of the runs of derive_session_key_v2. *)
DeriveArgs ==
    [nonce : {[i \in 1..10 |-> 65 + i], [i \in 1..10 |-> (251 * i) % 256]},
     suffix : {<<0, 0>>, <<18, 52>>},
     seed : {[i \in 1..12 |-> (19 * i + s) % 256] : s \in {0, 99}}
            \cup {[i \in 1..12 |-> IF i > 10 THEN 255 ELSE (19 * i) % 256]},
     syscode : {SYSCODE, <<1, 2, 3, 4>>},
     regcode : {REGCODE, <<9, 8, 7, 6>>}]

(* No codec run. *)
NoCodec == [stage |-> "none", cmd |-> 0, payload |-> <<>>, key |-> <<>>,
            plaintext |-> <<>>, packet |-> <<>>, damage |-> "none",
            fn |-> "none", args |-> <<>>, out |-> <<>>,
            res |-> [cmd |-> 0, payload |-> <<>>, valid |-> FALSE]]

----------------------------------------------------------------------------
(* Task records *)


(* A RayonicsSDK object (rayonics_ble/constants.py 47-48, sdk.py 60-79). *)
DEFAULT_SYSCODE == <<54, 54, 54, 54>>
DEFAULT_REGCODE == <<49, 49, 49, 49>>
SdkSyscodes == {DEFAULT_SYSCODE, SYSCODE}
SdkRegcodes == {DEFAULT_REGCODE, REGCODE}
SdkCmds == {GET_KEY_INFO, GET_EVENT_COUNT}

(* History: the frame send_command has built, with is_authenticated at that
   moment. *)
NoSent == [cmd |-> 0, tag |-> 0, key |-> NoKey, auth |-> FALSE]

NoSdk ==
    [pc |-> "none", client |-> FALSE, device |-> FALSE, up |-> FALSE,
     authenticated |-> FALSE,
     session_key |-> NoKey, syscode |-> DEFAULT_SYSCODE, regcode |-> DEFAULT_REGCODE,
     nonce |-> NoNonce, try_sys |-> DEFAULT_SYSCODE, try_reg |-> DEFAULT_REGCODE,
     try_defaults |-> FALSE, retried |-> FALSE, cmd |-> 0, sent |-> NoSent,
     ret |-> None, act |-> None, nConnect |-> 0]

(* The WebServer object (app.py 60-68): its fields; thread: _thread is
   None ("none"), alive or dead; loop: _loop is set; task: _task is None
   ("none"), the task of the running thread ("cur") or of a thread that is
   over ("old"); clients: _ws_clients is not empty; pc: where the server
   thread is; cancel: a cancel of the task is scheduled on the loop;
   restart: where the restart thread of TrayApp.toggle_server is.
   History: stopped: the last call was stop(); asked: start() was called
   after stop() and no stop() since. *)
NoWeb ==
    [ble_active |-> FALSE, running |-> FALSE, thread |-> "none", loop |-> FALSE,
     task |-> "none", port_error |-> FALSE, clients |-> FALSE, pc |-> "none",
     cancel |-> FALSE, restart |-> "none", stopped |-> FALSE, asked |-> FALSE]

(* History of the current link: CONNECT was written on it, a CONNECT
   response of length 15 was read from it and the key derived from it, a
   VERIFY response with status 0 / another status was read from it. *)
NoLink == [conSent |-> FALSE, key |-> NoKey, seedRx |-> FALSE, vrfOk |-> FALSE,
           vrfRejected |-> FALSE]

(* History kept with a task: the last frame it handed to write_gatt_char,
   with the session's flags at that moment. *)
NoWrite == [cmd |-> 0, tag |-> 0, key |-> NoKey, auth |-> FALSE,
            linkKey |-> NoKey, seedRx |-> FALSE, vrfOk |-> FALSE, busy |-> {}]

IdleTask ==
    [pc |-> "idle", act |-> None, msg |-> NoMsg, ret |-> None, silent |-> FALSE,
     nonce |-> NoNonce, count |-> 0, pos |-> 0, events |-> <<>>, clear |-> FALSE,
     key |-> NoKey, data |-> 0, inClear |-> FALSE,
     out |-> <<>>, startAuth |-> FALSE, nConnect |-> 0, nWrites |-> 0,
     conRx |-> NoPlain, vrfRx |-> NoPlain, ended |-> None, w |-> NoWrite,
     waited |-> FALSE, startTerminal |-> FALSE, rxOwn |-> FALSE]

At(r, l) == [r EXCEPT !.pc = l]
(* A call that ConnectionClosed has left: nothing of it remains but the
   exception on its way to ws_handler. *)
Escaped == [IdleTask EXCEPT !.pc = "escaped", !.act = "ws_closed"]

(* _emit: the message is handed to send, which returns (out: the messages
   send has returned for).  On a closed socket websocket.send raises
   ConnectionClosed (server.py 82-83); inside handle that is caught on line
   157, the _error of line 158 raises it again and it leaves handle.
   (send_json of app.py skips the send on a closed socket, and the action
   runs on as on an open one: the runs in which the socket closes when the
   action has returned.)  The locals of the call are gone with it. *)
Emit(r, m, l) ==
    IF ws = "closed" THEN Escaped
    ELSE [r EXCEPT !.out = Append(@, m), !.pc = l]
Log(text) == [type |-> "log", message |-> text]
Error(text) == [type |-> "error", message |-> text]
Done(r) == [r EXCEPT !.pc = "done"]

SetTask(t, r) == tk' = [tk EXCEPT ![t] = r]

(* History: a command exchange ends (response read, or timeout) while the
   messages that arrived during it still wait. *)
ExchangeEnds ==
    inbox' = [i \in DOMAIN inbox |->
                IF inbox[i] = "inflight" THEN "outlasted" ELSE inbox[i]]

(* _status(): the status message for the given field values. *)
StatusMsg(c, up, a, d) ==
    [type |-> "status", connected |-> (c # None /\ up), authenticated |-> a,
     device |-> IF d # None THEN d ELSE ""]


Init ==
    /\ client = None /\ linkUp = FALSE /\ notifying = FALSE /\ device = None
    /\ session_key = NoKey /\ authenticated = FALSE
    /\ response = <<>> /\ response_event = FALSE
    /\ scanned = {}
    /\ tk = [t \in Tasks |-> IdleTask]
    /\ inbox = <<>>
    /\ devq = <<>> /\ devPart = NoFrame
    /\ link = NoLink
    /\ ws = "open"
    /\ codec = NoCodec
    /\ sdk = NoSdk
    /\ web = NoWeb

----------------------------------------------------------------------------
(* Environment: the socket client, the BLE link, the key *)

InFlightPcs == {"L218", "L221", "L254", "L257", "L129", "L131"}

(* Task t has written a frame and has not yet read the response or timed out. *)
InFlight(t) == tk[t].pc \in InFlightPcs

(* A command is written and no notification has come for it. *)
CommandInFlight == ~response_event /\ \E u \in Tasks : InFlight(u)

(* No handle call is running: the loop waits for the next message. *)
LoopIdle == \A u \in Tasks : tk[u].pc = "idle"

(* A message arrives on the WebSocket and waits to be read by the loop.
   What it says is drawn when the loop reads it (the Dispatch actions).
   The handler does not see the socket's queue: a message that comes while
   a call is running and no command is in flight is read exactly as one
   that comes when the call has returned, and is modelled as that one. *)
Arrive ==
    /\ ws = "open"
    /\ LoopIdle \/ CommandInFlight
    /\ Len(inbox) < MaxInbox
    /\ inbox' = Append(inbox, IF CommandInFlight THEN "inflight" ELSE "early")
    /\ UNCHANGED <<sess, buf, scanned, tk, dev, hist, ws>>

(* The awaits that are not a send on the socket. *)
WaitPcs == {"L129", "L131", "L168", "L197", "L206", "L207", "L218", "L221", "L246",
            "L254", "L257", "L278", "L286", "L327", "L357", "L372"}

(* Task t is suspended in a send on the socket (_emit). *)
Sending(t) == tk[t].pc \notin WaitPcs \cup {"idle", "done", "escaped", "closed"}

(* The socket closes (the client goes away, a connection error, the server
   shuts down) while the loop waits for a message ... *)
WsClose ==
    /\ ws = "open"
    /\ LoopIdle
    /\ ws' = "closed"
    /\ UNCHANGED <<sess, buf, scanned, tk, inbox, dev, hist>>

(* ... or while a call is running: the call sees it in its next send, which
   raises ConnectionClosed; the exception leaves handle (lines 157-158). *)
send_raises(t) ==
    /\ ws = "open"
    /\ Sending(t)
    /\ ws' = "closed"
    /\ SetTask(t, Escaped)
    /\ UNCHANGED <<sess, buf, scanned, inbox, dev, hist>>

(* The BLE link drops: is_connected turns False, nothing else is told. *)
LinkLoss ==
    /\ client # None /\ linkUp
    /\ linkUp' = FALSE
    /\ devq' = <<>> /\ devPart' = NoFrame
    /\ UNCHANGED <<client, notifying, device, session_key, authenticated,
                   buf, scanned, tk, inbox, hist, ws>>

(* _on_notify: append the chunk, set the event.  Of the buffer the code
   reads only whether it holds 19 bytes, and its bytes 1..16.  So a chunk
   that arrives when 19 bytes are there is not recorded, and a chunk whose
   bytes cannot be part of a frame at the start of the buffer (the rest of a
   frame whose beginning is not in the buffer, and whatever follows it) is
   recorded by its length alone. *)
on_notify(chunk) ==
    /\ response' =
         IF BufLen(response) >= FrameLen THEN response
         ELSE IF response = <<>> /\ chunk.part # "tail" THEN <<chunk>>
         ELSE IF /\ Len(response) = 1 /\ response[1].part = "head"
                 /\ chunk.part = "tail" /\ chunk.f = response[1].f
              THEN Append(response, chunk)
         ELSE Append(response, [f |-> NoFrame, part |-> chunk.part])
    /\ response_event' = TRUE

(* The length bytes the key may answer a command with: a CONNECT answer
   carries a seed, an error byte, or something else; of the answers to other
   commands the handler never reads the length byte for a decision. *)
DeviceLens(cmd) == IF cmd = CONNECT_AUTH THEN RespLens ELSE {RejectLen}

(* The values of plaintext byte 2 the key may answer a command with: a seed
   (or an error code) to CONNECT, an event count to GET_EVENT_COUNT, a
   status or data byte to the others. *)
DeviceBytes(cmd) ==
    IF cmd = CONNECT_AUTH THEN Seeds
    ELSE IF cmd = GET_EVENT_COUNT THEN Counts
    ELSE Codes

(* The key answers the oldest frame it has received, under the key of that
   frame, with a plaintext of its choosing; the frame reaches the handler
   with its checksums right or, damaged on the way or sent by a key that
   does not keep to the protocol, with a CRC16 or an XOR byte that does
   not fit (sound: FALSE); in one notification ... *)
DeviceRespond ==
    /\ devq # <<>> /\ devPart = NoFrame /\ linkUp /\ notifying
    /\ \E l \in DeviceLens(Head(devq).cmd), b \in DeviceBytes(Head(devq).cmd),
          sd \in BOOLEAN :
         on_notify([f |-> [key |-> Head(devq).key, len |-> l, p2 |-> b,
                           cur |-> Head(devq).cur, sound |-> sd],
                    part |-> "all"])
    /\ devq' = Tail(devq)
    /\ UNCHANGED <<sess, scanned, tk, inbox, devPart, hist, ws>>

(* ... or in two (the handler treats a damaged frame that comes in two
   notifications as it treats the sound one, so only the sound one is
   drawn): the first HeadLen bytes ... *)
DeviceRespondHead ==
    /\ devq # <<>> /\ devPart = NoFrame /\ linkUp /\ notifying
    /\ \E l \in DeviceLens(Head(devq).cmd), b \in DeviceBytes(Head(devq).cmd) :
         LET f == [key |-> Head(devq).key, len |-> l, p2 |-> b, cur |-> Head(devq).cur,
                   sound |-> TRUE]
         IN /\ on_notify([f |-> f, part |-> "head"])
            /\ devPart' = f
    /\ devq' = Tail(devq)
    /\ UNCHANGED <<sess, scanned, tk, inbox, hist, ws>>

(* ... and then the rest. *)
DeviceRespondTail ==
    /\ devPart # NoFrame /\ linkUp /\ notifying
    /\ on_notify([f |-> devPart, part |-> "tail"])
    /\ devPart' = NoFrame
    /\ UNCHANGED <<sess, scanned, tk, inbox, devq, hist, ws>>

----------------------------------------------------------------------------
(* write_gatt_char *)

(* History: the frames the key has still to answer, and the answer it is
   in the middle of sending, are no longer replies to the latest write. *)
Stale(q) == [i \in DOMAIN q |-> [q[i] EXCEPT !.cur = FALSE]]

(* The frame reaches the key (which queues it, or ignores it when busy). *)
WriteOk(t, pkt) ==
    /\ client # None /\ linkUp
    /\ devq' = IF Len(devq) < MaxPending
               THEN Append(Stale(devq), [tag |-> pkt.tag, key |-> pkt.key,
                                         cmd |-> pkt.cmd, cur |-> TRUE])
               ELSE Stale(devq)
    /\ devPart' = [devPart EXCEPT !.cur = FALSE]

(* The task's record of the write. *)
Written(r, pkt) ==
    [r EXCEPT !.nWrites = @ + 1,
              !.w = [cmd |-> pkt.cmd, tag |-> pkt.tag, key |-> pkt.key,
                     auth |-> authenticated, linkKey |-> link.key,
                     seedRx |-> link.seedRx, vrfOk |-> link.vrfOk,
                     busy |-> {u \in Tasks : InFlight(u)}]]

----------------------------------------------------------------------------
(* disconnect (lines 283-295) *)

(* A faulty variant of Cleared: the session key is kept. *)
ClearedMut ==
    /\ client' = None /\ device' = None
    /\ session_key' = session_key /\ authenticated' = FALSE
    /\ linkUp' = FALSE /\ notifying' = FALSE
    /\ devq' = <<>> /\ devPart' = NoFrame
    /\ link' = NoLink

(* A faulty variant of Cleared: the flag outlives the key. *)
ClearedKeepsFlagMut ==
    /\ client' = None /\ device' = None
    /\ session_key' = NoKey /\ authenticated' = authenticated
    /\ linkUp' = FALSE /\ notifying' = FALSE
    /\ devq' = <<>> /\ devPart' = NoFrame
    /\ link' = NoLink

(* lines 284-292: the platform disconnect is over (or was not needed); the
   fields are cleared. *)
Cleared ==
    /\ client' = None /\ device' = None
    /\ session_key' = NoKey /\ authenticated' = FALSE
    /\ linkUp' = FALSE /\ notifying' = FALSE
    /\ devq' = <<>> /\ devPart' = NoFrame
    /\ link' = NoLink

(* connect, lines 189-194: look the address up. *)
ConnectLookup(r) ==
    IF r.msg.address \notin scanned
    THEN Emit(r, Error("not in scan results"), "L191")
    ELSE Emit(r, Log("Connecting"), "L194")

(* The task after lines 289-292, for each caller of disconnect. *)
AfterDisconnect(r, silent, ret) ==
    IF ~silent THEN Emit(r, Log("Disconnected"), "L294")
    ELSE IF ret = "L189" THEN ConnectLookup(r)
    ELSE IF ret = "closed" THEN At(r, "closed")
    ELSE Done(r)

(* Entering disconnect: wait for the platform when connected, else clear. *)
DisconnectCall(t, r, silent, ret) ==
    IF client # None /\ linkUp
    THEN /\ SetTask(t, [r EXCEPT !.pc = "L286", !.silent = silent, !.ret = ret])
         /\ UNCHANGED <<sess, dev, link>>
    ELSE /\ Cleared
         /\ SetTask(t, AfterDisconnect(r, silent, ret))

disconnect_L286(t) ==
    /\ tk[t].pc = "L286"
    /\ Cleared
    /\ SetTask(t, AfterDisconnect(tk[t], tk[t].silent, tk[t].ret))
    /\ UNCHANGED <<buf, scanned, inbox>>

disconnect_L294(t) ==
    /\ tk[t].pc = "L294"
    /\ SetTask(t, Emit(tk[t], StatusMsg(client, linkUp, authenticated, device), "L295"))
    /\ UNCHANGED <<sess, buf, scanned, inbox, dev, hist>>

disconnect_L295(t) ==
    /\ tk[t].pc = "L295"
    /\ SetTask(t, Done(tk[t]))
    /\ UNCHANGED <<sess, buf, scanned, inbox, dev, hist>>

----------------------------------------------------------------------------
(* The WebSocket loop and handle (server.py 88-94, ble_handler.py 139-159) *)

(* A faulty variant of CanDispatch: messages are handled as they come. *)
CanDispatchMut == TRUE

(* "await handler.handle(msg)" inside "async for raw in websocket": the
   next message is read only when the previous handle has returned. *)
CanDispatch == \A u \in Tasks : tk[u].pc = "idle"

Ready(t) ==
    /\ ws # "ended"
    /\ CanDispatch
    /\ inbox # <<>>
    /\ tk[t].pc = "idle"
    /\ \A u \in Tasks : u < t => tk[u].pc # "idle"
    /\ inbox' = Tail(inbox)

(* The session as disconnect leaves it. *)
Terminal ==
    client = None /\ device = None /\ session_key = NoKey /\ ~authenticated

Fresh(m) == [IdleTask EXCEPT !.act = m.action, !.msg = m, !.startAuth = authenticated,
                            !.waited = (Head(inbox) = "outlasted"),
                            !.startTerminal = Terminal]

DispatchScan(t) ==
    /\ Ready(t)
    /\ SetTask(t, Emit(Fresh([action |-> "scan"]), Log("Scanning"), "L164"))
    /\ UNCHANGED <<sess, buf, scanned, dev, link>>

(* connect: msg["address"] raises KeyError when the message has none. *)
(* A faulty variant of DispatchConnect: the address is looked up first, and
   the session is left alone when it is not in the table. *)
DispatchConnectMut(t) ==
    /\ Ready(t)
    /\ \E a \in Addresses :
         LET r == Fresh([action |-> "connect", address |-> a])
         IN IF a \notin scanned
            THEN /\ SetTask(t, ConnectLookup(r))
                 /\ UNCHANGED <<sess, dev, link>>
            ELSE DisconnectCall(t, r, TRUE, "L189")
    /\ UNCHANGED <<buf, scanned>>

DispatchConnect(t) ==
    /\ Ready(t)
    /\ \/ \E a \in Addresses :
            DisconnectCall(t, Fresh([action |-> "connect", address |-> a]), TRUE, "L189")
       \/ /\ SetTask(t, Emit(Fresh([action |-> "connect"]), Error("KeyError"), "L158"))
          /\ UNCHANGED <<sess, dev, link>>
    /\ UNCHANGED <<buf, scanned>>

DispatchDisconnect(t) ==
    /\ Ready(t)
    /\ DisconnectCall(t, Fresh([action |-> "disconnect"]), FALSE, "end")
    /\ UNCHANGED <<buf, scanned>>

(* A faulty variant of DispatchUnknown: the unknown action is reported
   twice. *)
DispatchUnknownMut(t) ==
    /\ Ready(t)
    /\ SetTask(t, Emit(Emit(Fresh([action |-> "bogus"]), Error("Unknown action"), "L156"),
                       Error("Unknown action"), "L156"))
    /\ UNCHANGED <<sess, buf, scanned, dev, link>>

DispatchUnknown(t) ==
    /\ Ready(t)
    /\ SetTask(t, Emit(Fresh([action |-> "bogus"]), Error("Unknown action"), "L156"))
    /\ UNCHANGED <<sess, buf, scanned, dev, link>>

(* handle has returned: the loop goes on to the next message; the locals of
   the finished call are gone. *)
ws_next(t) ==
    /\ tk[t].pc = "done"
    /\ SetTask(t, IdleTask)
    /\ UNCHANGED <<sess, buf, scanned, inbox, dev, hist>>

handle_L156(t) ==
    /\ tk[t].pc = "L156"
    /\ SetTask(t, Done(tk[t]))
    /\ UNCHANGED <<sess, buf, scanned, inbox, dev, hist>>

handle_L158(t) ==
    /\ tk[t].pc = "L158"
    /\ SetTask(t, Done(tk[t]))
    /\ UNCHANGED <<sess, buf, scanned, inbox, dev, hist>>

----------------------------------------------------------------------------
(* scan (lines 163-181) *)

(* A faulty variant of scan_L164: the table is not cleared. *)
scan_L164Mut(t) ==
    /\ tk[t].pc = "L164"
    /\ SetTask(t, At(tk[t], "L168"))
    /\ UNCHANGED <<sess, buf, scanned, inbox, dev, hist>>

scan_L164(t) ==
    /\ tk[t].pc = "L164"
    /\ scanned' = {}
    /\ SetTask(t, At(tk[t], "L168"))
    /\ UNCHANGED <<sess, buf, inbox, dev, hist>>

scan_L168(t) ==
    /\ tk[t].pc = "L168"
    /\ \/ \E found \in SUBSET Addresses :
            /\ scanned' = scanned \cup found
            /\ SetTask(t, Emit(tk[t], Log("Found"), "L180"))
       \/ /\ SetTask(t, Emit(tk[t], Error("BleakError"), "L158"))
          /\ UNCHANGED scanned
    /\ UNCHANGED <<sess, buf, inbox, dev, hist>>

scan_L180(t) ==
    /\ tk[t].pc = "L180"
    /\ SetTask(t, Emit(tk[t], [type |-> "devices", devices |-> scanned], "L181"))
    /\ UNCHANGED <<sess, buf, scanned, inbox, dev, hist>>

scan_L181(t) ==
    /\ tk[t].pc = "L181"
    /\ SetTask(t, Done(tk[t]))
    /\ UNCHANGED <<sess, buf, scanned, inbox, dev, hist>>

----------------------------------------------------------------------------
(* connect (lines 185-279) *)

connect_L191(t) ==
    /\ tk[t].pc = "L191"
    /\ SetTask(t, Done(tk[t]))
    /\ UNCHANGED <<sess, buf, scanned, inbox, dev, hist>>

(* line 196: a new BleakClient, not yet connected; line 197 starts. *)
connect_L194(t) ==
    /\ tk[t].pc = "L194"
    /\ client' = tk[t].msg.address
    /\ linkUp' = FALSE /\ notifying' = FALSE
    /\ SetTask(t, At(tk[t], "L197"))
    /\ UNCHANGED <<device, session_key, authenticated, buf, scanned, inbox, dev, hist>>

connect_L197(t) ==
    /\ tk[t].pc = "L197"
    /\ \/ /\ linkUp' = TRUE
          /\ device' = tk[t].msg.address
          /\ link' = NoLink
          /\ SetTask(t, Emit(tk[t], Log("Connected"), "L205"))
          /\ UNCHANGED client
       \/ /\ client' = None /\ device' = None
          /\ SetTask(t, Emit(tk[t], Error("Connection failed"), "L202"))
          /\ UNCHANGED <<linkUp, link>>
    /\ UNCHANGED <<notifying, session_key, authenticated, buf, scanned, inbox, dev>>

connect_L202(t) ==
    /\ tk[t].pc = "L202"
    /\ SetTask(t, Done(tk[t]))
    /\ UNCHANGED <<sess, buf, scanned, inbox, dev, hist>>

connect_L205(t) ==
    /\ tk[t].pc = "L205"
    /\ SetTask(t, At(tk[t], "L206"))
    /\ UNCHANGED <<sess, buf, scanned, inbox, dev, hist>>

(* start_notify returns, or raises (the link dropped, no such characteristic):
   the exception leaves connect and is caught on line 157. *)
connect_L206(t) ==
    /\ tk[t].pc = "L206"
    /\ \/ /\ client # None /\ linkUp
          /\ notifying' = TRUE
          /\ SetTask(t, At(tk[t], "L207"))
       \/ /\ SetTask(t, Emit(tk[t], Error("BleakError"), "L158"))
          /\ UNCHANGED notifying
    /\ UNCHANGED <<client, linkUp, device, session_key, authenticated, buf, scanned,
                   inbox, dev, hist>>

connect_L207(t) ==
    /\ tk[t].pc = "L207"
    /\ SetTask(t, Emit(tk[t], Log("Sending CONNECT"), "L210"))
    /\ UNCHANGED <<sess, buf, scanned, inbox, dev, hist>>

(* lines 211-218: nonce, clear the buffer, build and write the CONNECT frame. *)
connect_L210(t) ==
    /\ tk[t].pc = "L210"
    /\ response' = <<>> /\ response_event' = FALSE
    /\ \E n \in Nonces :
         LET packet == build_packet(CONNECT_AUTH, <<n>>, NoKey, 1)
         IN \/ /\ WriteOk(t, packet)
               /\ SetTask(t, [Written(tk[t], packet) EXCEPT !.pc = "L218", !.nonce = n,
                                                            !.nConnect = @ + 1])
               /\ link' = [link EXCEPT !.conSent = TRUE]
            \/ /\ SetTask(t, Emit([tk[t] EXCEPT !.nonce = n], Error("BleakError"), "L158"))
               /\ UNCHANGED <<dev, hist>>
    /\ UNCHANGED <<sess, scanned, inbox>>

connect_L218(t) ==
    /\ tk[t].pc = "L218"
    /\ SetTask(t, At(tk[t], "L221"))
    /\ UNCHANGED <<sess, buf, scanned, inbox, dev, hist>>

(* A faulty variant of ConnectSeeded: only length 4 is a failure. *)
ConnectSeededMut(resp_length) == resp_length # RejectLen

(* line 236: the CONNECT response carries a seed. *)
ConnectSeeded(resp_length) == resp_length = SeedLen

(* lines 221-244: the wait ends; the response is judged. *)
connect_L221(t) ==
    /\ tk[t].pc = "L221"
    /\ ExchangeEnds
    /\ \/ /\ ~response_event
          /\ SetTask(t, Emit([tk[t] EXCEPT !.ended = "timeout"],
                             Error("CONNECT timed out"), "L223"))
          /\ UNCHANGED <<session_key, link>>
       \/ /\ response_event /\ BufLen(response) < FrameLen
          /\ SetTask(t, Emit([tk[t] EXCEPT !.ended = "short"],
                             Error("Bad CONNECT response (short)"), "L229"))
          /\ UNCHANGED <<session_key, link>>
       \/ /\ response_event /\ BufLen(response) >= FrameLen
          /\ \E decrypted \in aes_decrypt(response, AES_KEY) :
               LET r == [tk[t] EXCEPT !.ended = "response", !.conRx = decrypted,
                                      !.rxOwn = OwnResponse(response)]
                   k == derive_session_key_v2(r.nonce, 0, decrypted.p2, SYSCODE, REGCODE)
               IN IF ~ConnectSeeded(decrypted.len)
                  THEN /\ SetTask(t, Emit(r, [type |-> "error",
                                              message |-> "CONNECT rejected",
                                              len |-> decrypted.len,
                                              err |-> decrypted.p2], "L238"))
                       /\ link' = [link EXCEPT !.seedRx = (decrypted.len = SeedLen)]
                       /\ UNCHANGED session_key
                  ELSE /\ session_key' = k
                       /\ link' = [link EXCEPT !.seedRx = (decrypted.len = SeedLen),
                                               !.key = k]
                       /\ SetTask(t, Emit(r, Log("Session key derived"), "L244"))
    /\ UNCHANGED <<client, linkUp, notifying, device, authenticated, buf, scanned, dev>>

(* lines 224, 230, 239, 260, 271, 275: disconnect(silent=True); return. *)
connect_fail(t) ==
    /\ tk[t].pc \in {"L223", "L229", "L238", "L259", "L270", "L274"}
    /\ DisconnectCall(t, tk[t], TRUE, "end")
    /\ UNCHANGED <<buf, scanned, inbox>>

connect_L244(t) ==
    /\ tk[t].pc = "L244"
    /\ SetTask(t, At(tk[t], "L246"))
    /\ UNCHANGED <<sess, buf, scanned, inbox, dev, hist>>

connect_L246(t) ==
    /\ tk[t].pc = "L246"
    /\ SetTask(t, Emit(tk[t], Log("Sending VERIFY"), "L249"))
    /\ UNCHANGED <<sess, buf, scanned, inbox, dev, hist>>

(* lines 250-254: clear the buffer, build and write the VERIFY frame. *)
connect_L249(t) ==
    /\ tk[t].pc = "L249"
    /\ response' = <<>> /\ response_event' = FALSE
    /\ LET packet == build_packet(VERIFY_CODE, REGCODE \o SYSCODE \o <<4>>, session_key, 0)
       IN \/ /\ WriteOk(t, packet)
             /\ SetTask(t, At(Written(tk[t], packet), "L254"))
             /\ UNCHANGED link
          \/ /\ SetTask(t, Emit(tk[t], Error("BleakError"), "L158"))
             /\ UNCHANGED <<dev, hist>>
    /\ UNCHANGED <<sess, scanned, inbox>>

connect_L254(t) ==
    /\ tk[t].pc = "L254"
    /\ SetTask(t, At(tk[t], "L257"))
    /\ UNCHANGED <<sess, buf, scanned, inbox, dev, hist>>

(* A faulty variant of VerifyAccepted: every status is accepted. *)
VerifyAcceptedMut(code) == TRUE

(* line 266: the VERIFY response reports success. *)
VerifyAccepted(code) == code = 0

(* lines 257-276 *)
connect_L257(t) ==
    /\ tk[t].pc = "L257"
    /\ ExchangeEnds
    /\ \/ /\ ~response_event
          /\ SetTask(t, Emit([tk[t] EXCEPT !.ended = "timeout"],
                             Error("VERIFY timed out"), "L259"))
          /\ UNCHANGED <<authenticated, link>>
       \/ /\ response_event /\ BufLen(response) < FrameLen
          /\ SetTask(t, Emit([tk[t] EXCEPT !.ended = "short"],
                             Error("Bad VERIFY response"), "L274"))
          /\ UNCHANGED <<authenticated, link>>
       \/ /\ response_event /\ BufLen(response) >= FrameLen
          /\ \E dec \in aes_decrypt(response, session_key) :
               LET r == [tk[t] EXCEPT !.ended = "response", !.vrfRx = dec,
                                      !.rxOwn = OwnResponse(response)]
               IN IF VerifyAccepted(dec.p2)
                  THEN /\ authenticated' = TRUE
                       /\ link' = [link EXCEPT !.vrfOk = (dec.p2 = 0),
                                               !.vrfRejected = (dec.p2 # 0)]
                       /\ SetTask(t, Emit(r, Log("Authentication successful"), "L268"))
                  ELSE /\ SetTask(t, Emit(r, [type |-> "error",
                                              message |-> "VERIFY failed",
                                              code |-> dec.p2], "L270"))
                       /\ link' = [link EXCEPT !.vrfRejected = (dec.p2 # 0)]
                       /\ UNCHANGED authenticated
    /\ UNCHANGED <<client, linkUp, notifying, device, session_key, buf, scanned, dev>>

connect_L268(t) ==
    /\ tk[t].pc = "L268"
    /\ SetTask(t, At(tk[t], "L278"))
    /\ UNCHANGED <<sess, buf, scanned, inbox, dev, hist>>

connect_L278(t) ==
    /\ tk[t].pc = "L278"
    /\ SetTask(t, Emit(tk[t], StatusMsg(client, linkUp, authenticated, device), "L279"))
    /\ UNCHANGED <<sess, buf, scanned, inbox, dev, hist>>

connect_L279(t) ==
    /\ tk[t].pc = "L279"
    /\ SetTask(t, Done(tk[t]))
    /\ UNCHANGED <<sess, buf, scanned, inbox, dev, hist>>

----------------------------------------------------------------------------
(* _send_cmd (lines 117-135) and its callers *)

(* A faulty variant of Raise: the event loop catches nothing. *)
RaiseMut(r, ret, exc) == Emit(r, Error(exc), "L158")

(* An exception leaving _send_cmd: caught on line 370 inside the event
   loop of read_events, on line 157 everywhere else. *)
Raise(r, ret, exc) ==
    IF ret = "L363"
    THEN [r EXCEPT !.events = Append(@, [pos |-> r.pos, kind |-> "error"]),
                   !.pc = "L372"]
    ELSE Emit(r, Error(exc), "L158")

(* The caller's code after "dec = await self._send_cmd(...)", up to its next
   await.  NoPlain stands for None. *)
SendCmdReturn(r, dec) ==
    CASE r.ret = "L305" ->
           IF dec = NoPlain THEN Emit(r, Error("GET_KEY_INFO timed out"), "L307")
           ELSE Emit([r EXCEPT !.data = dec.p2], Log("Key info received"), "L324")
      [] r.ret = "L329" ->
           Emit(r, Log("Version"), "L338")
      [] r.ret = "L350" ->
           IF dec = NoPlain THEN Emit(r, Error("GET_EVENT_COUNT timed out"), "L352")
           ELSE Emit([r EXCEPT !.count = dec.p2], Log("Event count"), "L356")
      [] r.ret = "L363" ->
           [r EXCEPT !.events = Append(@, [pos |-> r.pos,
                                           kind |-> IF dec = NoPlain THEN "timeout"
                                                    ELSE "event"]),
                     !.pc = "L372"]
      [] r.ret = "L388" ->
           IF dec # NoPlain THEN Emit(r, Log("Events cleared"), "L390")
           ELSE Emit(r, Error("CLEAN_EVENT timed out"), "L392")

(* lines 120-129: refuse without a connected client; else build the frame
   under the session key (system key when there is none), clear the buffer
   and the event, write. *)
SendCmdCall(t, r, cmd, payload, ret) ==
    \/ /\ ~(client # None /\ linkUp)
       /\ SetTask(t, Raise(r, ret, "RuntimeError: Not connected"))
       /\ UNCHANGED <<buf, dev, hist>>
    \/ /\ client # None /\ linkUp
       /\ response' = <<>> /\ response_event' = FALSE
       /\ \/ /\ WriteOk(t, build_packet(cmd, payload, session_key, 0))
             /\ SetTask(t, [Written(r, build_packet(cmd, payload, session_key, 0))
                              EXCEPT !.pc = "L129", !.ret = ret, !.key = session_key])
             /\ UNCHANGED link
          \/ /\ SetTask(t, Raise(r, ret, "BleakError"))
             /\ UNCHANGED <<dev, hist>>

sendcmd_L129(t) ==
    /\ tk[t].pc = "L129"
    /\ SetTask(t, At(tk[t], "L131"))
    /\ UNCHANGED <<sess, buf, scanned, inbox, dev, hist>>

(* A faulty variant of SendCmdTimeout: the timeout drops the key and the
   flag. *)
SendCmdTimeoutMut(t) ==
    /\ SetTask(t, Raise([tk[t] EXCEPT !.ended = "timeout"], tk[t].ret, "TimeoutError"))
    /\ session_key' = NoKey /\ authenticated' = FALSE
    /\ UNCHANGED <<client, linkUp, notifying, device>>

(* line 131: wait_for raises TimeoutError; _send_cmd touches no field. *)
SendCmdTimeout(t) ==
    /\ SetTask(t, Raise([tk[t] EXCEPT !.ended = "timeout"], tk[t].ret, "TimeoutError"))
    /\ UNCHANGED sess

(* A faulty variant of sendcmd_L131: the wait has no timeout. *)
sendcmd_L131Mut(t) ==
    /\ tk[t].pc = "L131"
    /\ response_event
    /\ ExchangeEnds
    /\ \/ /\ BufLen(response) < FrameLen
          /\ SetTask(t, SendCmdReturn([tk[t] EXCEPT !.ended = "short"], NoPlain))
       \/ /\ BufLen(response) >= FrameLen
          /\ \E dec \in aes_decrypt(response, tk[t].key) :
               SetTask(t, SendCmdReturn([tk[t] EXCEPT !.ended = "response",
                                                      !.rxOwn = OwnResponse(response)],
                                        dec))
    /\ UNCHANGED <<sess, buf, scanned, dev, hist>>

(* lines 131-135: TimeoutError, None for a short buffer, else the plaintext. *)
sendcmd_L131(t) ==
    /\ tk[t].pc = "L131"
    /\ ExchangeEnds
    /\ \/ /\ ~response_event
          /\ SendCmdTimeout(t)
       \/ /\ response_event /\ BufLen(response) < FrameLen
          /\ SetTask(t, SendCmdReturn([tk[t] EXCEPT !.ended = "short"], NoPlain))
          /\ UNCHANGED sess
       \/ /\ response_event /\ BufLen(response) >= FrameLen
          /\ \E dec \in aes_decrypt(response, tk[t].key) :
               SetTask(t, SendCmdReturn([tk[t] EXCEPT !.ended = "response",
                                                      !.rxOwn = OwnResponse(response)],
                                        dec))
          /\ UNCHANGED sess
    /\ UNCHANGED <<buf, scanned, dev, hist>>

----------------------------------------------------------------------------
(* read_key (lines 299-340) *)

(* A faulty variant of DispatchReadKey: no test of authenticated. *)
DispatchReadKeyMut(t) ==
    /\ Ready(t)
    /\ SetTask(t, Emit(Fresh([action |-> "read_key"]), Log("Reading key info"), "L304"))
    /\ UNCHANGED <<sess, buf, scanned, dev, link>>

DispatchReadKey(t) ==
    /\ Ready(t)
    /\ SetTask(t, IF ~authenticated
                  THEN Emit(Fresh([action |-> "read_key"]), Error("Not authenticated"), "L301")
                  ELSE Emit(Fresh([action |-> "read_key"]), Log("Reading key info"), "L304"))
    /\ UNCHANGED <<sess, buf, scanned, dev, link>>

(* The return after an error message: lines 302, 308, 347, 353, 385, and the
   end of clear_events after lines 390 and 392. *)
return_after_message(t) ==
    /\ tk[t].pc \in {"L301", "L307", "L346", "L352", "L384", "L390", "L392"}
    /\ SetTask(t, Done(tk[t]))
    /\ UNCHANGED <<sess, buf, scanned, inbox, dev, hist>>

readkey_L304(t) ==
    /\ tk[t].pc = "L304"
    /\ SendCmdCall(t, tk[t], GET_KEY_INFO, <<>>, "L305")
    /\ UNCHANGED <<sess, scanned, inbox>>

(* A faulty variant of readkey_L324: the version exchange is left out. *)
readkey_L324Mut(t) ==
    /\ tk[t].pc = "L324"
    /\ SetTask(t, At(tk[t], "L338"))
    /\ UNCHANGED <<sess, buf, scanned, inbox, dev, hist>>

readkey_L324(t) ==
    /\ tk[t].pc = "L324"
    /\ SetTask(t, At(tk[t], "L327"))
    /\ UNCHANGED <<sess, buf, scanned, inbox, dev, hist>>

readkey_L327(t) ==
    /\ tk[t].pc = "L327"
    /\ SetTask(t, Emit(tk[t], Log("Reading version"), "L328"))
    /\ UNCHANGED <<sess, buf, scanned, inbox, dev, hist>>

readkey_L328(t) ==
    /\ tk[t].pc = "L328"
    /\ SendCmdCall(t, tk[t], GET_KEY_VERSION, <<>>, "L329")
    /\ UNCHANGED <<sess, scanned, inbox>>

readkey_L338(t) ==
    /\ tk[t].pc = "L338"
    /\ SetTask(t, Emit(tk[t], [type |-> "key_info", data |-> tk[t].data], "L340"))
    /\ UNCHANGED <<sess, buf, scanned, inbox, dev, hist>>

readkey_L340(t) ==
    /\ tk[t].pc = "L340"
    /\ SetTask(t, Done(tk[t]))
    /\ UNCHANGED <<sess, buf, scanned, inbox, dev, hist>>

----------------------------------------------------------------------------
(* clear_events (lines 382-392) *)

ClearEventsEnter(r) ==
    IF ~authenticated THEN Emit(r, Error("Not authenticated"), "L384")
    ELSE Emit(r, Log("Clearing events"), "L387")

DispatchClearEvents(t) ==
    /\ Ready(t)
    /\ SetTask(t, ClearEventsEnter(Fresh([action |-> "clear_events"])))
    /\ UNCHANGED <<sess, buf, scanned, dev, link>>

clearevents_L387(t) ==
    /\ tk[t].pc = "L387"
    /\ SendCmdCall(t, tk[t], CLEAN_EVENT, <<>>, "L388")
    /\ UNCHANGED <<sess, scanned, inbox>>

----------------------------------------------------------------------------
(* read_events (lines 344-378) *)

DispatchReadEvents(t) ==
    /\ Ready(t)
    /\ \E c \in BOOLEAN :
         LET r == [Fresh([action |-> "read_events", clear |-> c]) EXCEPT !.clear = c]
         IN SetTask(t, IF ~authenticated
                       THEN Emit(r, Error("Not authenticated"), "L346")
                       ELSE Emit(r, Log("Getting event count"), "L349"))
    /\ UNCHANGED <<sess, buf, scanned, dev, link>>

readevents_L349(t) ==
    /\ tk[t].pc = "L349"
    /\ SendCmdCall(t, tk[t], GET_EVENT_COUNT, <<>>, "L350")
    /\ UNCHANGED <<sess, scanned, inbox>>

readevents_L356(t) ==
    /\ tk[t].pc = "L356"
    /\ SetTask(t, At(tk[t], "L357"))
    /\ UNCHANGED <<sess, buf, scanned, inbox, dev, hist>>

(* The head of "for pos in range(1, count + 1)" with the loop variable at
   pos: send GET_EVENT for it, or leave the loop (line 374). *)
EventLoop(t, r, pos) ==
    IF pos <= r.count
    THEN SendCmdCall(t, [r EXCEPT !.pos = pos], GET_EVENT,
                     <<pos % 256, (pos \div 256) % 256>>, "L363")
    ELSE /\ SetTask(t, Emit(r, Log("Read events"), "L374"))
         /\ UNCHANGED <<buf, dev, hist>>

readevents_L357(t) ==
    /\ tk[t].pc = "L357"
    /\ EventLoop(t, [tk[t] EXCEPT !.events = <<>>], 1)
    /\ UNCHANGED <<sess, scanned, inbox>>

(* After the 150 ms sleep that follows the exchange of one position. *)
readevents_L372(t) ==
    /\ tk[t].pc = "L372"
    /\ EventLoop(t, tk[t], tk[t].pos + 1)
    /\ UNCHANGED <<sess, scanned, inbox>>

readevents_L374(t) ==
    /\ tk[t].pc = "L374"
    /\ SetTask(t, Emit(tk[t], [type |-> "events", data |-> tk[t].events], "L375"))
    /\ UNCHANGED <<sess, buf, scanned, inbox, dev, hist>>

(* A faulty variant of readevents_L375: no test of clear. *)
readevents_L375Mut(t) ==
    /\ tk[t].pc = "L375"
    /\ SetTask(t, IF tk[t].count > 0
                  THEN ClearEventsEnter([tk[t] EXCEPT !.inClear = TRUE])
                  ELSE Done(tk[t]))
    /\ UNCHANGED <<sess, buf, scanned, inbox, dev, hist>>

(* lines 377-378 *)
readevents_L375(t) ==
    /\ tk[t].pc = "L375"
    /\ SetTask(t, IF tk[t].clear /\ tk[t].count > 0
                  THEN ClearEventsEnter([tk[t] EXCEPT !.inClear = TRUE])
                  ELSE Done(tk[t]))
    /\ UNCHANGED <<sess, buf, scanned, inbox, dev, hist>>

----------------------------------------------------------------------------
Step(t) ==
    \/ DispatchScan(t) \/ DispatchConnect(t) \/ DispatchDisconnect(t)
    \/ DispatchReadKey(t) \/ DispatchReadEvents(t) \/ DispatchClearEvents(t)
    \/ DispatchUnknown(t) \/ ws_next(t)
    \/ handle_L156(t) \/ handle_L158(t)
    \/ scan_L164(t) \/ scan_L168(t) \/ scan_L180(t) \/ scan_L181(t)
    \/ disconnect_L286(t) \/ disconnect_L294(t) \/ disconnect_L295(t)
    \/ connect_L191(t) \/ connect_L194(t) \/ connect_L197(t) \/ connect_L202(t)
    \/ connect_L205(t) \/ connect_L206(t) \/ connect_L207(t) \/ connect_L210(t)
    \/ connect_L218(t) \/ connect_L221(t) \/ connect_fail(t) \/ connect_L244(t)
    \/ connect_L246(t) \/ connect_L249(t) \/ connect_L254(t) \/ connect_L257(t)
    \/ connect_L268(t) \/ connect_L278(t) \/ connect_L279(t)
    \/ sendcmd_L129(t) \/ sendcmd_L131(t) \/ return_after_message(t)
    \/ readkey_L304(t) \/ readkey_L324(t) \/ readkey_L327(t) \/ readkey_L328(t)
    \/ readkey_L338(t) \/ readkey_L340(t)
    \/ clearevents_L387(t)
    \/ readevents_L349(t) \/ readevents_L356(t) \/ readevents_L357(t)
    \/ readevents_L372(t) \/ readevents_L374(t)
    \/ readevents_L375(t)

(* server.py 95-99, app.py 107-110: the loop over the messages ends, by the
   ConnectionClosed that left handle or because the socket is closed, and
   the finally clause runs handler.disconnect(silent=True). *)
(* A faulty variant of ws_finally: the loop ends without the disconnect. *)
ws_finallyMut(t) ==
    /\ ws = "closed"
    /\ tk[t].pc = "escaped" \/ (CanDispatch /\ t = 1)
    /\ ws' = "ended"
    /\ inbox' = <<>>
    /\ UNCHANGED <<sess, buf, scanned, tk, dev, hist>>

ws_finally(t) ==
    /\ ws = "closed"
    /\ \/ tk[t].pc = "escaped" /\ DisconnectCall(t, tk[t], TRUE, "closed")
       \/ /\ CanDispatch
          /\ t = 1
          /\ DisconnectCall(t, [IdleTask EXCEPT !.act = "ws_closed"], TRUE, "closed")
    /\ ws' = "ended"
    /\ inbox' = <<>>
    /\ UNCHANGED <<buf, scanned>>

Next ==
    \/ Arrive /\ UNCHANGED <<codec, sdk, web>>
    \/ WsClose /\ UNCHANGED <<codec, sdk, web>>
    \/ LinkLoss /\ UNCHANGED <<codec, sdk, web>>
    \/ DeviceRespond /\ UNCHANGED <<codec, sdk, web>>
    \/ DeviceRespondHead /\ UNCHANGED <<codec, sdk, web>>
    \/ DeviceRespondTail /\ UNCHANGED <<codec, sdk, web>>
    \/ \E t \in Tasks : Step(t) /\ UNCHANGED <<ws, codec, sdk, web>>
    \/ \E t \in Tasks : send_raises(t) /\ UNCHANGED <<codec, sdk, web>>
    \/ \E t \in Tasks : ws_finally(t) /\ UNCHANGED <<codec, sdk, web>>

Spec == Init /\ [][Next]_vars

(* The event loop runs every coroutine that can go on: a handle call that
   waits for a send, a sleep, a deadline or the platform is resumed, and
   the finally block of ws_handler runs once the loop over the messages is
   over. *)
SpecLive ==
    /\ Spec
    /\ WF_vars(\E t \in Tasks : Step(t) /\ UNCHANGED <<ws, codec, sdk, web>>)
    /\ WF_vars(\E t \in Tasks : ws_finally(t) /\ UNCHANGED <<codec, sdk, web>>)

----------------------------------------------------------------------------
(* The codec on its own: build_packet and parse_packet applied to inputs
   drawn from CodecCmds, CodecPayloads and CodecKeys, with no session. *)

CodecInit ==
    /\ client = None /\ linkUp = FALSE /\ notifying = FALSE /\ device = None
    /\ session_key = NoKey /\ authenticated = FALSE
    /\ response = <<>> /\ response_event = FALSE
    /\ scanned = {}
    /\ tk = [t \in Tasks |-> IdleTask]
    /\ inbox = <<>>
    /\ devq = <<>> /\ devPart = NoFrame
    /\ link = NoLink
    /\ ws = "open"
    /\ sdk = NoSdk
    /\ web = NoWeb
    /\ \/ \E c \in CodecCmds, p \in CodecPayloads, k \in CodecKeys :
            codec = [NoCodec EXCEPT !.stage = "input", !.cmd = c, !.payload = p,
                                    !.key = k]
       \/ \E a \in DeriveArgs :
            codec = [NoCodec EXCEPT !.stage = "args", !.fn = "derive", !.args = a]
       \/ \E a \in DeriveArgs :
            /\ a.suffix = <<0, 0>> /\ a.syscode = SYSCODE /\ a.regcode = REGCODE
            /\ codec = [NoCodec EXCEPT !.stage = "args", !.fn = "handshake",
                                       !.args = [nonce |-> a.nonce, seed |-> a.seed]]
       \/ \E d \in EventPayloads :
            codec = [NoCodec EXCEPT !.stage = "args", !.fn = "event",
                                    !.args = [data |-> d]]
       \/ \E d \in {<<>>, <<49, 50, 51, 52, 53, 54, 55, 56, 57>>, <<0>>, <<255, 255>>} :
            codec = [NoCodec EXCEPT !.stage = "args", !.fn = "crc16",
                                    !.args = [data |-> d]]

(* packet = build_packet(cmd, payload, key); the plaintext block it
   encrypts is kept beside it. *)
codec_build ==
    /\ codec.stage = "input"
    /\ codec' = [codec EXCEPT
                   !.stage = "built",
                   !.plaintext = PacketPlaintext(codec.cmd, codec.payload),
                   !.packet = build_packet_bytes(codec.cmd, codec.payload, codec.key)]
    /\ UNCHANGED <<sess, buf, scanned, tk, inbox, dev, hist, ws, sdk, web>>

(* Before it is parsed the packet is damaged, or replaced by a packet that
   was not made by build_packet: a byte is lost or added, a CRC byte is
   changed, or the packet is sealed around a block whose length byte is
   out of range or whose byte 14 is not the XOR of the 14 before it
   (plaintext: the block inside the packet). *)
codec_damage ==
    /\ codec.stage = "built" /\ codec.damage = "none"
    /\ LET pk == codec.packet
           pt == codec.plaintext
           frame == pk[1]
       IN \/ codec' = [codec EXCEPT !.damage = "short", !.packet = SubSeq(pk, 1, 18)]
          \/ codec' = [codec EXCEPT !.damage = "long", !.packet = Append(pk, 0)]
          \/ \E i \in {18, 19} :
                codec' = [codec EXCEPT !.damage = "crc",
                                       !.packet = [pk EXCEPT ![i] = (@ + 1) % 256]]
          \/ \E l \in {0, 2, 16, 255} :
                LET bad == [pt EXCEPT ![1] = l]
                IN codec' = [codec EXCEPT !.damage = "length", !.plaintext = bad,
                                          !.packet = SealPacket(frame, bad, codec.key)]
          \/ LET bad == [pt EXCEPT ![15] = (@ + 1) % 256]
             IN codec' = [codec EXCEPT !.damage = "xor", !.plaintext = bad,
                                       !.packet = SealPacket(frame, bad, codec.key)]
    /\ UNCHANGED <<sess, buf, scanned, tk, inbox, dev, hist, ws, sdk, web>>

(* res = parse_packet(packet, key). *)
codec_parse ==
    /\ codec.stage = "built"
    /\ codec' = [codec EXCEPT !.stage = "parsed",
                              !.res = parse_packet(codec.packet, codec.key)]
    /\ UNCHANGED <<sess, buf, scanned, tk, inbox, dev, hist, ws, sdk, web>>

(* out = derive_session_key_v2(nonce, suffix, seed, syscode, regcode). *)
codec_derive ==
    /\ codec.stage = "args" /\ codec.fn = "derive"
    /\ codec' = [codec EXCEPT !.stage = "applied",
                              !.out = derive_key_bytes(codec.args.nonce, codec.args.suffix,
                                                       codec.args.seed, codec.args.syscode,
                                                       codec.args.regcode)]
    /\ UNCHANGED <<sess, buf, scanned, tk, inbox, dev, hist, ws, sdk, web>>

(* out = crc16(data). *)
codec_crc16 ==
    /\ codec.stage = "args" /\ codec.fn = "crc16"
    /\ codec' = [codec EXCEPT !.stage = "applied", !.out = crc16(codec.args.data)]
    /\ UNCHANGED <<sess, buf, scanned, tk, inbox, dev, hist, ws, sdk, web>>

(* The two packets connect writes for a nonce and the seed the key answers
   with (lines 211-217, 242-253). *)
codec_handshake ==
    /\ codec.stage = "args" /\ codec.fn = "handshake"
    /\ LET nonce == codec.args.nonce
           key == derive_key_bytes(nonce, <<0, 0>>, codec.args.seed, SYSCODE, REGCODE)
       IN codec' = [codec EXCEPT !.stage = "applied", !.key = key,
                                 !.out = [connect |-> ConnectPacket(nonce),
                                          verify |-> VerifyPacket(key)]]
    /\ UNCHANGED <<sess, buf, scanned, tk, inbox, dev, hist, ws, sdk, web>>

(* out = _parse_event(data). *)
codec_event ==
    /\ codec.stage = "args" /\ codec.fn = "event"
    /\ codec' = [codec EXCEPT !.stage = "applied", !.out = parse_event(codec.args.data)]
    /\ UNCHANGED <<sess, buf, scanned, tk, inbox, dev, hist, ws, sdk, web>>

CodecNext ==
    \/ codec_build \/ codec_damage \/ codec_parse
    \/ codec_derive \/ codec_crc16 \/ codec_handshake \/ codec_event

SpecCodec == CodecInit /\ [][CodecNext]_vars

----------------------------------------------------------------------------
(* RayonicsSDK (rayonics_ble/sdk.py): connect, authenticate, set_codes,
   send_command, disconnect, called one after the other on one object.
   One step is a call up to its first await, or the code from the end of
   one await to the next. *)

(* __init__ (lines 60-79): "syscode or DEFAULT_SYSCODE". *)
SdkInit ==
    /\ client = None /\ linkUp = FALSE /\ notifying = FALSE /\ device = None
    /\ session_key = NoKey /\ authenticated = FALSE
    /\ response = <<>> /\ response_event = FALSE
    /\ scanned = {}
    /\ tk = [t \in Tasks |-> IdleTask]
    /\ inbox = <<>>
    /\ devq = <<>> /\ devPart = NoFrame
    /\ link = NoLink
    /\ ws = "open"
    /\ codec = NoCodec
    /\ web = NoWeb
    /\ \E sc \in SdkSyscodes, rc \in SdkRegcodes :
         sdk = [NoSdk EXCEPT !.pc = "idle", !.syscode = sc, !.regcode = rc]

SdkRest == <<sess, buf, scanned, tk, inbox, dev, hist, ws, codec, web>>

(* is_connected (lines 91-94) *)
is_connected == sdk.client /\ sdk.up

(* The method returns, or an exception leaves it. *)
SdkReturn(s, v) == [s EXCEPT !.pc = "idle", !.ret = v]

(* connect (lines 195-225): the platform connect succeeds, or it raises and
   the client is dropped. *)
sdk_connect ==
    /\ sdk.pc = "idle"
    /\ \/ sdk' = SdkReturn([sdk EXCEPT !.act = "connect", !.client = TRUE,
                                       !.device = TRUE, !.up = TRUE,
                                       !.authenticated = FALSE],
                           "True")
       \/ sdk' = SdkReturn([sdk EXCEPT !.act = "connect", !.client = FALSE,
                                       !.device = FALSE, !.up = FALSE],
                           "ConnectionError")
    /\ UNCHANGED SdkRest

(* lines 231-234 *)
SdkCleared(s) ==
    [s EXCEPT !.client = FALSE, !.device = FALSE, !.up = FALSE,
              !.authenticated = FALSE, !.session_key = NoKey]

(* disconnect (lines 227-234), also called by __aexit__ (lines 84-85): the
   platform disconnect is awaited when connected, else the fields are
   cleared at once. *)
sdk_disconnect ==
    /\ sdk.pc = "idle"
    /\ sdk' = IF is_connected
              THEN [sdk EXCEPT !.act = "disconnect", !.pc = "L230"]
              ELSE SdkReturn(SdkCleared([sdk EXCEPT !.act = "disconnect"]), None)
    /\ UNCHANGED SdkRest

(* line 230: the platform disconnect returns and the fields are cleared, or
   it raises: no handler is around it, and the exception leaves disconnect
   before lines 231-234. *)
sdk_L230 ==
    /\ sdk.pc = "L230"
    /\ \/ sdk' = SdkReturn(SdkCleared(sdk), None)
       \/ \E u \in {sdk.up, FALSE} :
            sdk' = SdkReturn([sdk EXCEPT !.up = u], "BleakError")
    /\ UNCHANGED SdkRest

(* set_codes (lines 120-130) *)
sdk_set_codes ==
    /\ sdk.pc = "idle"
    /\ \E sc \in SdkSyscodes, rc \in SdkRegcodes :
         sdk' = SdkReturn([sdk EXCEPT !.act = "set_codes",
                                      !.syscode = sc, !.regcode = rc,
                                      !.authenticated = FALSE], None)
    /\ UNCHANGED SdkRest

(* The link to the key is lost: is_connected turns false. *)
sdk_link_loss ==
    /\ sdk.pc # "none" /\ sdk.up
    /\ sdk' = [sdk EXCEPT !.up = FALSE]
    /\ UNCHANGED SdkRest

(* authenticate (lines 361-379), on an object that has a client, up to the
   await of start_notify. *)
sdk_authenticate ==
    /\ sdk.pc = "idle" /\ sdk.client
    /\ \E d \in BOOLEAN :
         sdk' = [sdk EXCEPT !.pc = "L379", !.act = "authenticate",
                            !.try_defaults = d, !.retried = FALSE,
                            !.nConnect = 0]
    /\ UNCHANGED SdkRest

(* lines 379-383 and 413-439: start_notify raises on a lost link; else the
   sleep and the first _try_connect, with the configured codes: a fresh
   nonce, the CONNECT frame under the system key, the write. *)
sdk_L379 ==
    /\ sdk.pc = "L379"
    /\ IF sdk.up
       THEN sdk' \in {[sdk EXCEPT !.pc = "L439", !.nonce = n,
                                  !.try_sys = sdk.syscode, !.try_reg = sdk.regcode]
                      : n \in Nonces}
       ELSE sdk' = SdkReturn(sdk, "BleakError")
    /\ UNCHANGED SdkRest

(* lines 439-442: the write raises on a lost link (no handler around it);
   else the frame is out (nConnect: history, the CONNECT frames written by
   this call of authenticate) and the response is waited for. *)
sdk_L439 ==
    /\ sdk.pc = "L439"
    /\ sdk' = IF sdk.up THEN [sdk EXCEPT !.pc = "L442", !.nConnect = @ + 1]
              ELSE SdkReturn(sdk, "BleakError")
    /\ UNCHANGED SdkRest

(* A faulty variant of TryFailed: the retry does not ask for try_defaults
   or for other codes than the defaults. *)
TryFailedMut(s) ==
    IF ~s.retried
    THEN {[s EXCEPT !.pc = "L439", !.nonce = n, !.retried = TRUE,
                    !.try_sys = DEFAULT_SYSCODE, !.try_reg = DEFAULT_REGCODE]
          : n \in Nonces}
    ELSE {SdkReturn(s, "False")}

(* lines 385-390: _try_connect has returned False; the retry with the
   default codes, once, when asked for and the codes are not the defaults. *)
TryFailed(s) ==
    IF /\ ~s.retried /\ s.try_defaults
       /\ (s.syscode # DEFAULT_SYSCODE \/ s.regcode # DEFAULT_REGCODE)
    THEN {[s EXCEPT !.pc = "L439", !.nonce = n, !.retried = TRUE,
                    !.try_sys = DEFAULT_SYSCODE, !.try_reg = DEFAULT_REGCODE]
          : n \in Nonces}
    ELSE {SdkReturn(s, "False")}

(* lines 442-483: no response, a short or invalid one, or a length other
   than 15: False.  Length 15: the session key is derived and stored, and
   _send_verify_code (lines 506-520) builds VERIFY under it and writes. *)
sdk_L442 ==
    /\ sdk.pc = "L442"
    /\ \/ sdk' \in TryFailed(sdk)
       \/ \E seed \in Seeds :
            sdk' = [sdk EXCEPT
                      !.session_key = derive_session_key_v2(sdk.nonce, 0, seed,
                                                            sdk.try_sys, sdk.try_reg),
                      !.pc = "L520"]
    /\ UNCHANGED SdkRest

(* lines 520-523 *)
sdk_L520 ==
    /\ sdk.pc = "L520"
    /\ sdk' = IF sdk.up THEN [sdk EXCEPT !.pc = "L523"]
              ELSE SdkReturn(sdk, "BleakError")
    /\ UNCHANGED SdkRest

(* lines 470-473: _send_verify_code has returned False. *)
VerifyFailed(s) == [s EXCEPT !.session_key = NoKey]

(* lines 523-539 and 467-473: a valid VERIFY response with status 0 sets
   the flag; anything else, or no response, drops the session key. *)
sdk_L523 ==
    /\ sdk.pc = "L523"
    /\ \/ sdk' = SdkReturn([sdk EXCEPT !.authenticated = TRUE], "True")
       \/ sdk' \in TryFailed(VerifyFailed(sdk))
    /\ UNCHANGED SdkRest

(* send_command (lines 545-567) on a connected object, up to the await of
   start_notify. *)
sdk_send_command ==
    /\ sdk.pc = "idle" /\ is_connected
    /\ \E c \in SdkCmds :
         sdk' = [sdk EXCEPT !.pc = "L567", !.act = "send_command", !.cmd = c]
    /\ UNCHANGED SdkRest

(* line 572 *)
SendKey(s) == IF s.authenticated THEN s.session_key ELSE NoKey

(* lines 568-578: whatever start_notify did, the frame is built under the
   session key if authenticated, else under the system key, and written. *)
sdk_L567 ==
    /\ sdk.pc = "L567"
    /\ LET pkt == build_packet(sdk.cmd, <<>>, SendKey(sdk), 0)
       IN sdk' = [sdk EXCEPT !.pc = "L578",
                             !.sent = [cmd |-> pkt.cmd, tag |-> pkt.tag,
                                       key |-> pkt.key,
                                       auth |-> sdk.authenticated]]
    /\ UNCHANGED SdkRest

(* lines 578-581 *)
sdk_L578 ==
    /\ sdk.pc = "L578"
    /\ sdk' = IF sdk.up THEN [sdk EXCEPT !.pc = "L581"]
              ELSE SdkReturn(sdk, "BleakError")
    /\ UNCHANGED SdkRest

(* lines 581-591: the payload of a valid response, or None. *)
sdk_L581 ==
    /\ sdk.pc = "L581"
    /\ \E v \in {"payload", None} : sdk' = SdkReturn(sdk, v)
    /\ UNCHANGED SdkRest

SdkNext ==
    \/ sdk_connect \/ sdk_disconnect \/ sdk_L230 \/ sdk_set_codes
    \/ sdk_link_loss
    \/ sdk_authenticate \/ sdk_L379 \/ sdk_L439 \/ sdk_L442 \/ sdk_L520
    \/ sdk_L523
    \/ sdk_send_command \/ sdk_L567 \/ sdk_L578 \/ sdk_L581

SpecSdk == SdkInit /\ [][SdkNext]_vars

----------------------------------------------------------------------------
(* WebServer._ws_handler (app.py 70-112): the loop of server.py with the
   activity flag of the tray icon around it. *)

ACTIVE_ACTIONS == {"scan", "connect", "read_key", "read_events", "clear_events"}

(* The message a step of task t has handed to send_json, if any. *)
Sent(t) ==
    IF Len(tk'[t].out) > (IF tk[t].pc = "idle" THEN 0 ELSE Len(tk[t].out))
    THEN <<tk'[t].out[Len(tk'[t].out)]>>
    ELSE <<>>

(* send_json, lines 81-87: a message of one of four types ends the
   activity. *)
send_json(active, msgs) ==
    IF \E i \in DOMAIN msgs : msgs[i].type \in {"devices", "key_info", "events", "status"}
    THEN FALSE
    ELSE active

(* lines 101-103 and 81-87: the flag after a step of task t.  A step that
   takes a message from the socket sets it for an action of
   ACTIVE_ACTIONS before handle runs. *)
BleActiveStep(t) ==
    web' = [web EXCEPT !.ble_active =
              send_json(IF tk[t].pc = "idle" /\ tk'[t].msg.action \in ACTIVE_ACTIONS
                        THEN TRUE ELSE web.ble_active,
                        Sent(t))]

(* lines 107-110 *)
BleActiveFinally == web' = [web EXCEPT !.ble_active = FALSE]

WebNext ==
    \/ Arrive /\ UNCHANGED <<codec, sdk, web>>
    \/ WsClose /\ UNCHANGED <<codec, sdk, web>>
    \/ LinkLoss /\ UNCHANGED <<codec, sdk, web>>
    \/ DeviceRespond /\ UNCHANGED <<codec, sdk, web>>
    \/ DeviceRespondHead /\ UNCHANGED <<codec, sdk, web>>
    \/ DeviceRespondTail /\ UNCHANGED <<codec, sdk, web>>
    \/ \E t \in Tasks : Step(t) /\ BleActiveStep(t) /\ UNCHANGED <<ws, codec, sdk>>
    \/ \E t \in Tasks : send_raises(t) /\ UNCHANGED <<codec, sdk, web>>
    \/ \E t \in Tasks : ws_finally(t) /\ BleActiveFinally /\ UNCHANGED <<codec, sdk>>

SpecWeb == Init /\ [][WebNext]_vars

----------------------------------------------------------------------------
(* WebServer.start, stop and the server thread (app.py 129-185).  start and
   stop are called from the application's threads; one step of the server
   thread is the code between two points where the other threads can see
   its writes or its task can be cancelled. *)

ThreadInit ==
    /\ client = None /\ linkUp = FALSE /\ notifying = FALSE /\ device = None
    /\ session_key = NoKey /\ authenticated = FALSE
    /\ response = <<>> /\ response_event = FALSE
    /\ scanned = {}
    /\ tk = [t \in Tasks |-> IdleTask]
    /\ inbox = <<>>
    /\ devq = <<>> /\ devPart = NoFrame
    /\ link = NoLink
    /\ ws = "open"
    /\ codec = NoCodec
    /\ sdk = NoSdk
    /\ web = NoWeb

WebRest == <<sess, buf, scanned, tk, inbox, dev, hist, ws, codec, sdk>>

(* line 163: self._thread and self._thread.is_alive() *)
ThreadAlive(w) == w.thread = "alive"

(* start (lines 162-180): nothing while the thread is alive; else a new
   thread.  (Calls of start and stop do not overlap one another.) *)
Start(w) ==
    IF ThreadAlive(w)
    THEN [w EXCEPT !.asked = w.stopped \/ w.asked, !.stopped = FALSE]
    ELSE [w EXCEPT !.thread = "alive", !.pc = "L167",
                   !.asked = w.stopped \/ w.asked, !.stopped = FALSE]

(* The task can still be cancelled: _run is at one of its awaits. *)
TaskPending(w) == w.task = "cur" /\ w.pc \in {"L132", "L135", "L145", "L155"}

(* stop (lines 182-185) *)
Stop(w) ==
    IF w.loop /\ w.task # "none"
    THEN [w EXCEPT !.running = FALSE, !.cancel = w.cancel \/ TaskPending(w),
                   !.stopped = TRUE, !.asked = FALSE]
    ELSE [w EXCEPT !.stopped = TRUE, !.asked = FALSE]

(* server.start() at the launch of the application (line 439) *)
web_start ==
    /\ web.restart = "none"
    /\ web' = Start(web)
    /\ UNCHANGED WebRest

(* server.stop() from the menu or at quit (lines 315, 416) *)
web_stop ==
    /\ web.restart = "none"
    /\ web' = Stop(web)
    /\ UNCHANGED WebRest

(* TrayApp.toggle_server (lines 290-308): stop a running server, else
   begin the restart thread. *)
toggle_server ==
    /\ web.restart = "none"
    /\ web' = IF web.running THEN Stop(web) ELSE [web EXCEPT !.restart = "L296"]
    /\ UNCHANGED WebRest

(* restart, lines 296-303: without Bluetooth the alert, and no start. *)
restart_L296 ==
    /\ web.restart = "L296"
    /\ \E available \in BOOLEAN :
         web' = [web EXCEPT !.restart = IF available THEN "L304" ELSE "none"]
    /\ UNCHANGED WebRest

(* restart, lines 304-305 *)
restart_L304 ==
    /\ web.restart = "L304"
    /\ web' = [Start(web) EXCEPT !.restart = "L305"]
    /\ UNCHANGED WebRest

(* restart, lines 305-307: after the sleep the browser is opened if the
   server is running. *)
restart_L305 ==
    /\ web.restart = "L305"
    /\ web' = [web EXCEPT !.restart = "none"]
    /\ UNCHANGED WebRest

(* A WebSocket client connects to the running server, or goes. *)
web_client ==
    /\ web.pc = "L145"
    /\ web' = [web EXCEPT !.clients = ~web.clients]
    /\ UNCHANGED WebRest

(* run, line 167 *)
run_L167 ==
    /\ web.pc = "L167"
    /\ web' = [web EXCEPT !.loop = TRUE, !.pc = "L169"]
    /\ UNCHANGED WebRest

(* run, lines 169-171, and _run up to the await of line 132 *)
run_L169 ==
    /\ web.pc = "L169"
    /\ web' = [web EXCEPT !.task = "cur", !.pc = "L132"]
    /\ UNCHANGED WebRest

(* _run, line 132: CancelledError leaves _run (the try of line 143 is not
   entered yet), else on to site.start(). *)
run_L132 ==
    /\ web.pc = "L132"
    /\ web' = IF web.cancel THEN [web EXCEPT !.cancel = FALSE, !.pc = "L175"]
              ELSE [web EXCEPT !.pc = "L135"]
    /\ UNCHANGED WebRest

(* _run, lines 134-141: cancelled; or the port is in use; or the site is
   up. *)
run_L135 ==
    /\ web.pc = "L135"
    /\ \/ /\ web.cancel
          /\ web' = [web EXCEPT !.cancel = FALSE, !.pc = "L175"]
       \/ /\ ~web.cancel
          /\ \/ web' = [web EXCEPT !.port_error = TRUE, !.running = FALSE,
                                   !.pc = "L175"]
             \/ web' = [web EXCEPT !.port_error = FALSE, !.running = TRUE,
                                   !.pc = "L145"]
    /\ UNCHANGED WebRest

(* _run, lines 143-155: the sleep loop runs until the task is cancelled;
   then the clients are closed and the runner's cleanup is awaited. *)
run_L145 ==
    /\ web.pc = "L145" /\ web.cancel
    /\ web' = [web EXCEPT !.cancel = FALSE, !.clients = FALSE, !.pc = "L155"]
    /\ UNCHANGED WebRest

(* _run, lines 155-158: whatever the cleanup raises is dropped. *)
run_L155 ==
    /\ web.pc = "L155"
    /\ web' = [web EXCEPT !.cancel = FALSE, !.running = FALSE, !.pc = "L175"]
    /\ UNCHANGED WebRest

(* run, line 175: the task is over, the loop is closed. *)
run_L175 ==
    /\ web.pc = "L175"
    /\ web' = [web EXCEPT !.task = "old", !.pc = "L176"]
    /\ UNCHANGED WebRest

(* run, line 176 *)
run_L176 ==
    /\ web.pc = "L176"
    /\ web' = [web EXCEPT !.loop = FALSE, !.pc = "L177"]
    /\ UNCHANGED WebRest

(* run, line 177, and the end of the thread *)
run_L177 ==
    /\ web.pc = "L177"
    /\ web' = [web EXCEPT !.running = FALSE, !.thread = "dead", !.pc = "none"]
    /\ UNCHANGED WebRest

ThreadStep ==
    \/ run_L167 \/ run_L169 \/ run_L132 \/ run_L135 \/ run_L145 \/ run_L155
    \/ run_L175 \/ run_L176 \/ run_L177

RestartStep == restart_L296 \/ restart_L304 \/ restart_L305

ThreadNext ==
    \/ web_start \/ web_stop \/ toggle_server \/ web_client
    \/ ThreadStep \/ RestartStep

SpecThread ==
    /\ ThreadInit /\ [][ThreadNext]_vars
    /\ WF_vars(ThreadStep) /\ WF_vars(RestartStep)

----------------------------------------------------------------------------
(* Properties *)

CmdFacade == {"read_key", "read_events", "clear_events"}

(* The messages of a given type among those a task has emitted. *)
OutOfType(r, ty) == SelectSeq(r.out, LAMBDA m : m.type = ty)

(* C1: at most one command is outstanding on a session: never two tasks
   between the write of a frame and the end of its exchange, and no frame
   is written while another task's exchange is open; a message that comes
   meanwhile waits in the socket until the handler has returned. *)
C1_OneCommandOutstanding ==
    /\ Cardinality({t \in Tasks : InFlight(t)}) <= 1
    /\ \A t \in Tasks : tk[t].w.busy = {}
    /\ Cardinality({t \in Tasks : tk[t].pc # "idle"}) <= 1

(* A second message waits while an exchange is in flight. *)
C1_Witness ==
    \E t \in Tasks : InFlight(t) /\ inbox # <<>> /\ inbox[1] = "inflight"

(* The states and the steps of a command action that began unauthenticated. *)
C2_UnauthenticatedInv ==
    /\ \A t \in Tasks :
         (tk[t].act \in CmdFacade /\ ~tk[t].startAuth) =>
            /\ tk[t].nWrites = 0
            /\ tk[t].pc # "idle" => tk[t].out = <<Error("Not authenticated")>>
    /\ \A t \in Tasks : tk[t].w.cmd \in CmdLayer => tk[t].w.auth

C2_UnauthenticatedStep ==
    \A t \in Tasks :
        (tk'[t].act \in CmdFacade /\ ~tk'[t].startAuth /\ tk'[t] # tk[t]) =>
            UNCHANGED <<client, linkUp, device, session_key, authenticated, scanned>>

(* C2: read_key, read_events and clear_events called on a session whose
   authenticated flag is false emit a single error and nothing else, write
   no frame, and leave the transport handle, the device, the key, the flag
   and the scanned table as they were; and no command other than CONNECT
   and VERIFY is ever written while authenticated is false. *)
C2_UnauthenticatedRejected ==
    []C2_UnauthenticatedInv /\ [][C2_UnauthenticatedStep]_vars

(* read_key has returned on a session whose link is up, notifications on,
   and authenticated false. *)
C2_Witness ==
    \E t \in Tasks :
        /\ tk[t].act = "read_key" /\ tk[t].pc = "done" /\ ~tk[t].startAuth
        /\ client # None /\ linkUp /\ ~authenticated

(* The link of the session is open. *)
LinkOpen == client # None /\ linkUp

(* C3: the session key is set only while the link is open and VERIFY has
   not been rejected on it: the key is absent once the link is lost or
   closed. *)
C3_KeyOnlyWhileLinkOpen ==
    session_key # NoKey => (LinkOpen /\ ~link.vrfRejected)

(* C4: every frame other than CONNECT is written with tag 2 under the
   session key derived on the current link; tag 1 and the system key are
   used for CONNECT only. *)
C4_FrameKeys ==
    \A t \in Tasks :
        LET w == tk[t].w
        IN w.cmd # 0 =>
             IF w.cmd = CONNECT_AUTH
             THEN w.tag = 1 /\ w.key = AES_KEY
             ELSE /\ w.tag = 2
                  /\ w.key.kind = "session"
                  /\ w.key = w.linkKey

(* VERIFY and, later on the same link, a command-layer frame have been
   written. *)
C4_Witness ==
    \E t \in Tasks :
        /\ tk[t].w.cmd = GET_EVENT /\ tk[t].w.tag = 2
        /\ tk[t].w.key = link.key /\ link.vrfOk

(* The state of the session, read from its fields and the history of the
   link. *)
Phase ==
    IF device = None THEN "DISCONNECTED"
    ELSE IF authenticated THEN "AUTHENTICATED"
    ELSE IF session_key # NoKey THEN "SEEDED"
    ELSE IF link.conSent THEN "HANDSHAKE_SENT"
    ELSE "LINK_UP"

PhaseRank(p) ==
    CASE p = "DISCONNECTED" -> 0
      [] p = "LINK_UP" -> 1
      [] p = "HANDSHAKE_SENT" -> 2
      [] p = "SEEDED" -> 3
      [] p = "AUTHENTICATED" -> 4

(* What has been read on the link before a frame is written, and the moves
   of the session state. *)
C5_WriteOrder ==
    /\ \A t \in Tasks :
         /\ tk[t].w.cmd = VERIFY_CODE => tk[t].w.seedRx
         /\ tk[t].w.cmd \in CmdLayer => tk[t].w.vrfOk
    /\ Phase = "SEEDED" => link.seedRx
    /\ Phase = "AUTHENTICATED" => link.vrfOk

C5_PhaseStep ==
    \/ Phase' = Phase
    \/ PhaseRank(Phase') = PhaseRank(Phase) + 1
    \/ Phase' = "DISCONNECTED"

(* C5: the session moves one state at a time along DISCONNECTED, LINK_UP,
   HANDSHAKE_SENT, SEEDED, AUTHENTICATED, or falls back to DISCONNECTED;
   VERIFY is written only after a CONNECT response of length 15 has been
   read on the same link, and a command-layer frame only after a VERIFY
   response with status 0 has been read on the same link. *)
C5_HandshakeOrder == []C5_WriteOrder /\ [][C5_PhaseStep]_vars

(* A command-layer frame has been written on an authenticated link. *)
C5_Witness ==
    \E t \in Tasks :
        /\ tk[t].w.cmd = GET_KEY_INFO /\ tk[t].w.seedRx /\ tk[t].w.vrfOk
        /\ Phase = "AUTHENTICATED"

Last(q) == q[Len(q)]

(* C6: the CONNECT response has three outcomes by its length byte: 15
   derives the session key from the seed; 4 surfaces the rejection with
   the error byte plaintext[2]; any other length surfaces an error that is
   not the rejection error; in the failing outcomes no key is set and
   authenticated stays false. *)
C6_ConnectOutcomes ==
    \A t \in Tasks :
        tk[t].pc \in {"L238", "L244"} =>
            LET rx == tk[t].conRx
                e == Last(tk[t].out)
            IN CASE rx.len = SeedLen ->
                      /\ tk[t].pc = "L244"
                      /\ session_key = derive_session_key_v2(tk[t].nonce, 0, rx.p2,
                                                             SYSCODE, REGCODE)
                 [] rx.len = RejectLen ->
                      /\ tk[t].pc = "L238" /\ e.type = "error"
                      /\ e.message = "CONNECT rejected" /\ e.err = rx.p2
                      /\ session_key = NoKey /\ ~authenticated
                 [] OTHER ->
                      /\ tk[t].pc = "L238" /\ e.type = "error"
                      /\ e.message # "CONNECT rejected"
                      /\ session_key = NoKey /\ ~authenticated

(* The status messages with authenticated=true among those a task has
   emitted. *)
AuthStatuses(r) == SelectSeq(OutOfType(r, "status"), LAMBDA m : m.authenticated)

(* How connect ends after a VERIFY response, and the step that sets the flag. *)
C7_VerifyInv ==
    /\ \A t \in Tasks :
         (tk[t].act = "connect" /\ tk[t].pc = "done" /\ tk[t].vrfRx # NoPlain) =>
            IF tk[t].vrfRx.p2 = 0
            THEN /\ authenticated
                 /\ Last(tk[t].out).type = "status"
                 /\ Last(tk[t].out).authenticated
            ELSE /\ client = None /\ ~linkUp
                 /\ session_key = NoKey /\ ~authenticated
                 /\ OutOfType(tk[t], "error") # <<>>
                 /\ AuthStatuses(tk[t]) = <<>>
    /\ \A t \in Tasks : AuthStatuses(tk[t]) # <<>> => tk[t].vrfRx.p2 = 0
    /\ authenticated => link.vrfOk

C7_VerifyStep ==
    (~authenticated /\ authenticated') =>
        \E t \in Tasks :
            /\ tk[t].pc = "L257" /\ tk'[t].pc = "L268"
            /\ tk'[t].vrfRx # NoPlain /\ tk'[t].vrfRx.p2 = 0

(* C7: a VERIFY response with status 0 makes the session authenticated and
   connect ends with a status message saying so; with any other status
   connect ends with the link closed, the key and the flag cleared, an
   error emitted and no status with authenticated=true; and authenticated
   turns true in no other step. *)
C7_VerifyDecides == []C7_VerifyInv /\ [][C7_VerifyStep]_vars

(* connect has ended after a VERIFY response with status 0. *)
C7_Witness ==
    \E t \in Tasks :
        /\ tk[t].act = "connect" /\ tk[t].pc = "done"
        /\ tk[t].vrfRx # NoPlain /\ tk[t].vrfRx.p2 = 0
        /\ Last(tk[t].out) = StatusMsg(client, TRUE, TRUE, device)

(* C8: when the CONNECT response is a rejection (length 4), connect
   writes CONNECT a second time, with the default codes, and no third
   time. *)
C8_RetryOnceWithDefaults ==
    \A t \in Tasks :
        (tk[t].act = "connect" /\ tk[t].pc = "done" /\ tk[t].conRx.len = RejectLen) =>
            tk[t].nConnect = 2

(* C9: disconnect is idempotent: whatever the session was, and also when
   it was already disconnected, disconnect ends with no transport handle,
   no device, no key and authenticated false, and has emitted exactly one
   status message, which says connected=false and authenticated=false. *)
C9_DisconnectIdempotent ==
    \A t \in Tasks :
        (tk[t].act = "disconnect" /\ tk[t].pc = "done") =>
            /\ Terminal /\ ~linkUp
            /\ OutOfType(tk[t], "error") = <<>>
            /\ OutOfType(tk[t], "status") = <<StatusMsg(None, FALSE, FALSE, None)>>

(* disconnect has ended on a session that was already disconnected. *)
C9_Witness ==
    \E t \in Tasks :
        /\ tk[t].act = "disconnect" /\ tk[t].pc = "done" /\ tk[t].startTerminal
        /\ Len(OutOfType(tk[t], "status")) = 1

(* C10: a disconnect that arrives while a command is in flight is handled
   before that command's exchange ends by its response or its timeout. *)
C10_DisconnectCancelsWait ==
    \A t \in Tasks : tk[t].act = "disconnect" => ~tk[t].waited

(* The step in which the wait of _send_cmd expires, and what a command
   action never does. *)
C11_TimeoutStep ==
    \A t \in Tasks :
        (tk[t].pc = "L131" /\ tk'[t].pc # "L131" /\ tk'[t].ended = "timeout") =>
            /\ UNCHANGED <<client, linkUp, notifying, device, session_key, authenticated>>
            /\ \/ /\ tk'[t].pc = "L158"
                  /\ tk'[t].out = Append(tk[t].out, Error("TimeoutError"))
               \/ /\ tk[t].ret = "L363" /\ tk'[t].pc = "L372"
                  /\ tk'[t].out = tk[t].out
                  /\ tk'[t].events =
                         Append(tk[t].events, [pos |-> tk[t].pos, kind |-> "error"])

C11_NoRehandshake ==
    \A t \in Tasks :
        tk[t].act \in CmdFacade =>
            tk[t].nConnect = 0 /\ tk[t].w.cmd \notin {CONNECT_AUTH, VERIFY_CODE}

(* C11: when the wait for the response to a post-handshake command
   expires, a timeout error is surfaced (an error message, or the error
   record of the position in read_events) and the session is as it was:
   transport handle, key and authenticated are kept, no handshake frame is
   written, and the next command is written on the same session. *)
C11_TimeoutKeepsSession == []C11_NoRehandshake /\ [][C11_TimeoutStep]_vars

(* After GET_EVENT has timed out, read_events has written CLEAN_EVENT on
   the same authenticated session. *)
C11_Witness ==
    \E t \in Tasks :
        /\ tk[t].pc = "L129" /\ tk[t].ended = "timeout"
        /\ tk[t].w.cmd = CLEAN_EVENT /\ tk[t].w.auth /\ tk[t].w.key = session_key
        /\ authenticated /\ LinkOpen

(* The error messages connect ends with when the platform has failed: the
   platform connect (line 202), start_notify or write_gatt_char (line 158). *)
PlatformFailures == {Error("Connection failed"), Error("BleakError")}

(* C12: when a platform operation fails during connect (platform connect,
   start_notify, a write of the handshake), connect ends with an error
   surfaced and the session DISCONNECTED: no transport handle, no device,
   no key, authenticated false. *)
C12_PlatformFailureDisconnects ==
    \A t \in Tasks :
        (/\ tk[t].act = "connect" /\ tk[t].pc = "done"
         /\ \E i \in DOMAIN tk[t].out : tk[t].out[i] \in PlatformFailures) =>
            Terminal

(* C13: every response a command exchange consumes is the notification
   the key produced in reply to that exchange's own write: a notification
   that comes late, for an earlier write, is never taken as the response
   of a later command. *)
C13_ResponseIsOwn ==
    \A t \in Tasks : tk[t].ended = "response" => tk[t].rxOwn

(* The buffer begins with the first part of the reply to the latest write. *)
PartialOwn(b) == b # <<>> /\ b[1].part = "head" /\ b[1].f.cur

(* C14: when the 19-byte reply to a command comes in more than one
   notification, the command does not end on the partial buffer: it
   decodes the complete frame. *)
C14_CompleteFrameDecoded ==
    \A t \in Tasks :
        (tk[t].ended = "short" /\ ~InFlight(t)) => ~PartialOwn(response)

(* The messages of type "events" a task has emitted are its list, and the
   list has one entry per position. *)
EventsEmitted(r) ==
    /\ OutOfType(r, "events") = <<[type |-> "events", data |-> r.events]>>
    /\ Len(r.events) = r.count

(* C15: in read_events with event count N a missing, short or failed
   response for a position does not end the sweep: the positions 1..N are
   asked for once each in ascending order, and the events message has
   exactly N entries, entry i being the event of position i or an error
   record of position i. *)
C15_SweepComplete ==
    \A t \in Tasks :
        tk[t].act = "read_events" =>
            /\ Len(tk[t].events) <= tk[t].count
            /\ \A i \in DOMAIN tk[t].events :
                   /\ tk[t].events[i].pos = i
                   /\ tk[t].events[i].kind \in {"event", "timeout", "error"}
            /\ (tk[t].ret = "L363" /\ tk[t].pc \in {"L129", "L131"}) =>
                   /\ tk[t].pos = Len(tk[t].events) + 1
                   /\ tk[t].w.cmd = GET_EVENT
            /\ tk[t].pc = "L372" => tk[t].pos = Len(tk[t].events)
            /\ tk[t].pc = "L374" => Len(tk[t].events) = tk[t].count
            /\ tk[t].pc = "L375" => EventsEmitted(tk[t])
            /\ (tk[t].pc = "done" /\ tk[t].count > 0) => EventsEmitted(tk[t])

(* read_events has gone through all positions and emitted the list although
   the exchange of the last position failed. *)
C15_Witness ==
    \E t \in Tasks :
        /\ tk[t].act = "read_events" /\ tk[t].pc = "done"
        /\ tk[t].count = MaxEvents /\ EventsEmitted(tk[t])
        /\ tk[t].events[MaxEvents].kind # "event"

(* The outer message is malformed: an action handle does not know, or a
   connect without an address. *)
BadRequest(r) == r.act = "bogus" \/ r.msg = [action |-> "connect"]

(* A call emits at most one error, and after it nothing but the status of
   the teardown; what is raised inside the action is the error handle emits on line 158; a
   malformed message yields its error and nothing else. *)
C16_OneError ==
    \A t \in Tasks :
        /\ Len(OutOfType(tk[t], "error")) <= 1
        /\ \A i, j \in DOMAIN tk[t].out :
               (tk[t].out[i].type = "error" /\ i < j) => tk[t].out[j].type = "status"
        /\ tk[t].pc = "L158" => Last(tk[t].out).type = "error"
        /\ (BadRequest(tk[t]) /\ tk[t].pc # "idle") =>
               /\ tk[t].out \in {<<Error("Unknown action")>>, <<Error("KeyError")>>}
               /\ tk[t].nWrites = 0

(* A malformed message leaves the session and the scanned table alone. *)
C16_BadRequestStep ==
    \A t \in Tasks :
        (BadRequest(tk'[t]) /\ tk'[t] # tk[t]) =>
            UNCHANGED <<client, linkUp, notifying, device, session_key, authenticated,
                        scanned>>

(* An exception leaves handle only from a send on a closed socket. *)
C16_EscapeStep ==
    \A t \in Tasks :
        (tk'[t].pc = "escaped" /\ tk[t].pc # "escaped") => ws' = "closed"

(* C16: while the socket to the page is open, every failure of an action
   handled by handle is surfaced as exactly one error message: no call
   emits more than one error or goes on after its error, an unknown
   action or a connect without an address yields one error and no change
   of the session, and no exception leaves handle; the one exception that
   does leave it is the ConnectionClosed of a send on a closed socket. *)
C16_FailuresSurfacedOnce ==
    []C16_OneError /\ [][C16_BadRequestStep /\ C16_EscapeStep]_vars

(* A connect without an address has been answered with its one error on
   an authenticated session. *)
C16_Witness ==
    \E t \in Tasks :
        /\ tk[t].pc = "done"
        /\ tk[t].msg = [action |-> "connect"]
        /\ tk[t].out = <<Error("KeyError")>>
        /\ authenticated /\ session_key # NoKey

(* C16 as stated: handle never lets an exception escape to its caller. *)
C16_NoExceptionEscapes == \A t \in Tasks : tk[t].pc # "escaped"

(* The error texts that report an expired deadline. *)
TimeoutTexts ==
    {"CONNECT timed out", "VERIFY timed out", "GET_KEY_INFO timed out",
     "GET_EVENT_COUNT timed out", "CLEAN_EVENT timed out", "TimeoutError"}

(* C17: a response that arrived but is malformed (here: shorter than 19
   bytes) is reported as a protocol error and never as a timeout: when the
   wait of a command ended with a short buffer, the error the command
   reports is not one of the timeout texts. *)
C17_ShortIsNotTimeout ==
    \A t \in Tasks :
        (tk[t].ended = "short" /\ tk[t].out # <<>> /\ Last(tk[t].out).type = "error") =>
            Last(tk[t].out).message \notin TimeoutTexts

(* A wait ends on a buffer that is not a sound frame: the step derives no
   key, does not set authenticated, takes no key info and records no
   event. *)
C18_UnsoundStep ==
    \A t \in Tasks :
        (~Sound(response) /\ tk'[t].pc # tk[t].pc) =>
            /\ tk[t].pc = "L221" => session_key' = session_key
            /\ tk[t].pc = "L257" => authenticated' = authenticated
            /\ tk[t].pc = "L131" =>
                   /\ tk'[t].pc # "L324"
                   /\ ~(/\ tk'[t].pc = "L372"
                        /\ Len(tk'[t].events) > Len(tk[t].events)
                        /\ Last(tk'[t].events).kind = "event")

(* C18: a response whose trailing CRC16 does not match its bytes 0..16, or
   whose XOR byte is wrong, is never accepted by the session: no session
   key is derived from it, authenticated is not set on it, and it yields
   no key_info and no event. *)
C18_UnsoundNeverAccepted == [][C18_UnsoundStep]_vars

(* C19: round trip: for every command code, every payload of 0 to 12
   bytes (9 among them) and every key, parse_packet(build_packet(cmd,
   payload, key), key) gives the same cmd, the same payload and valid =
   TRUE. *)
C19_RoundTrip ==
    (codec.stage = "parsed" /\ codec.damage = "none") =>
        codec.res = [cmd |-> codec.cmd, payload |-> codec.payload, valid |-> TRUE]

(* C20: in the plaintext block of build_packet, byte 0 is len(payload) + 3,
   and len(payload) + 2 for a payload of 9 bytes (9 bytes give 11, 10 bytes
   give 13); byte 1 is the command code, the payload follows, the byte at
   index len(payload) + 2 is the XOR of the bytes before it, and all the
   other bytes are zero. *)
C20_PlaintextLayout ==
    (codec.stage \in {"built", "parsed"} /\ codec.damage = "none") =>
        LET n == Len(codec.payload)
            pt == codec.plaintext
        IN /\ Len(pt) = 16
           /\ pt[1] = IF n = 9 THEN 11 ELSE n + 3
           /\ n = 10 => pt[1] = 13
           /\ pt[2] = codec.cmd
           /\ SubSeq(pt, 3, n + 2) = codec.payload
           /\ pt[n + 3] = xor_checksum(SubSeq(pt, 1, n + 2))
           /\ \A i \in (n + 4)..16 : pt[i] = 0

(* A packet has been built from a payload of 9 bytes. *)
C20_Witness == codec.stage = "built" /\ Len(codec.payload) = 9 /\ codec.plaintext[1] = 11

(* C21: parse_packet rejects malformed input: an input that is not 19
   bytes long, or whose trailing little-endian CRC16 is not the CRC16 of
   bytes 0..16, gives valid = FALSE; a plaintext length byte below 3 or
   above 15 gives valid = FALSE with the command byte and plaintext[2..14)
   still returned; and valid = TRUE is returned only when plaintext[14] is
   the XOR of plaintext[0..14). *)
C21_MalformedRejected ==
    codec.stage = "parsed" =>
        LET pt == codec.plaintext
        IN /\ codec.damage \in {"short", "long", "crc"} =>
                codec.res = [cmd |-> 0, payload |-> <<>>, valid |-> FALSE]
           /\ codec.damage = "length" =>
                codec.res = [cmd |-> pt[2], payload |-> SubSeq(pt, 3, 14),
                             valid |-> FALSE]
           /\ codec.damage = "xor" => ~codec.res.valid
           /\ codec.res.valid =>
                /\ Len(codec.packet) = 19
                /\ pt[1] >= 3 /\ pt[1] <= 15
                /\ pt[15] = xor_checksum(SubSeq(pt, 1, 14))

(* A packet of a 12-byte payload with a changed CRC byte has been parsed. *)
C21_Witness ==
    /\ codec.stage = "parsed"
    /\ codec.damage = "crc"
    /\ Len(codec.payload) = MaxPayload
    /\ ~codec.res.valid

(* C22: for every 10-byte nonce, 12-byte seed and 4-byte system code
   derive_session_key_v2 returns 16 bytes with key[i] = nonce[i] XOR
   seed[i] for i in 0..9, key[10..14) the system code and LE16(key[14..16))
   the CRC16 of key[0..14); and the result depends neither on the suffix,
   nor on the registration code, nor on bytes 10..11 of the seed. *)
C22_SessionKeyLayout ==
    (codec.stage = "applied" /\ codec.fn = "derive") =>
        LET a == codec.args
            key == codec.out
        IN /\ Len(key) = 16
           /\ \A i \in 1..10 : key[i] = XorNat(a.nonce[i], a.seed[i])
           /\ SubSeq(key, 11, 14) = a.syscode
           /\ key[15] + 256 * key[16] = crc16(SubSeq(key, 1, 14))
           /\ \A b \in DeriveArgs :
                (b.nonce = a.nonce /\ b.syscode = a.syscode
                                  /\ SubSeq(b.seed, 1, 10) = SubSeq(a.seed, 1, 10)) =>
                    derive_key_bytes(b.nonce, b.suffix, b.seed, b.syscode, b.regcode) = key

(* A key has been derived from a seed whose bytes 10..11 are not those of
   another seed with the same first ten bytes. *)
C22_Witness ==
    /\ codec.stage = "applied" /\ codec.fn = "derive"
    /\ codec.args.seed[11] = 255
    /\ codec.args.syscode = SYSCODE
    /\ SubSeq(codec.out, 11, 14) = SYSCODE

(* C23: crc16 (reflected polynomial 0x8408, register 0xFFFF at the start,
   eight steps per byte from the low bit, complemented at the end, 16
   bits) gives 0x0000 for the empty string and 0x906E for the ASCII string
   "123456789". *)
C23_CrcValues ==
    (codec.stage = "applied" /\ codec.fn = "crc16") =>
        /\ codec.args.data = <<>> => codec.out = 0
        /\ codec.args.data = <<49, 50, 51, 52, 53, 54, 55, 56, 57>> => codec.out = 36974
        /\ codec.out \in 0..65535

(* crc16 has been applied to "123456789". *)
C23_Witness ==
    /\ codec.stage = "applied" /\ codec.fn = "crc16"
    /\ codec.args.data = <<49, 50, 51, 52, 53, 54, 55, 56, 57>>
    /\ codec.out = 36974

(* C23 as stated: crc16 of "123456789" is 0x8921. *)
C23_CheckValue8921 ==
    (codec.stage = "applied" /\ codec.fn = "crc16"
        /\ codec.args.data = <<49, 50, 51, 52, 53, 54, 55, 56, 57>>) => codec.out = 35105

(* C24: the CONNECT frame is built from the 12-byte payload nonce(10) ||
   LE16(CRC16(nonce)) under the system key: it has 19 bytes, byte 0 is the
   tag 0x01, bytes 17..18 are LE16 of the CRC16 of bytes 0..16, and its
   decryption under the system key has plaintext[0] = 0x0F, plaintext[1] =
   0x0D and plaintext[2..14) the payload; the VERIFY frame carries
   regcode(4) || syscode(4) || 0x04 with tag 0x02 under the session key. *)
C24_HandshakeFrames ==
    (codec.stage = "applied" /\ codec.fn = "handshake") =>
        LET con == codec.out.connect
            vrf == codec.out.verify
            nonce == codec.args.nonce
            cpt == aes_decrypt_block(SubSeq(con, 2, 17), AES_KEY_BYTES)
            vpt == aes_decrypt_block(SubSeq(vrf, 2, 17), codec.key)
        IN /\ Len(con) = 19 /\ con[1] = 1
           /\ con[18] + 256 * con[19] = crc16(SubSeq(con, 1, 17))
           /\ cpt[1] = 15 /\ cpt[2] = 13
           /\ SubSeq(cpt, 3, 12) = nonce
           /\ cpt[13] + 256 * cpt[14] = crc16(nonce)
           /\ Len(vrf) = 19 /\ vrf[1] = 2
           /\ vrf[18] + 256 * vrf[19] = crc16(SubSeq(vrf, 1, 17))
           /\ vpt[2] = 15
           /\ SubSeq(vpt, 3, 11) = REGCODE \o SYSCODE \o <<4>>
           /\ aes_decrypt_block(SubSeq(vrf, 2, 17), AES_KEY_BYTES) # vpt

(* The two handshake packets have been built for a nonce of letters. *)
C24_Witness ==
    /\ codec.stage = "applied" /\ codec.fn = "handshake"
    /\ codec.args.nonce = [i \in 1..10 |-> 65 + i]
    /\ codec.out.connect[1] = 1 /\ codec.out.verify[1] = 2

(* C25: _parse_event decodes a 12-byte event payload as keyId =
   LE16(bytes 0..1), lockId = LE16(bytes 3..4), the time from the six BCD
   bytes 5..10 (year = 2000 + YY), event = byte 11 and eventName from the
   event-type table or "Unknown (N)"; for the payload 2A 00 00 05 00 24 01
   0F 0E 1E 00 01 the result is keyId 42, lockId 5, time "2024-01-15
   14:24:00", event 1, eventName "Open Success" (the minute byte 1E is
   read as BCD: 1 * 10 + 14), and the time "2024-01-15 14:30:00" is that
   of the bytes 24 01 15 14 30 00. *)
C25_EventDecode ==
    (codec.stage = "applied" /\ codec.fn = "event") =>
        LET d == codec.args.data
            e == codec.out
            Bcd(b) == 10 * (b \div 16) + (b % 16)
            Num(q) == IF Len(q) = 2 THEN 10 * q[1] + q[2]
                      ELSE IF Len(q) = 3 THEN 100 * q[1] + 10 * q[2] + q[3]
                      ELSE 1000 * q[1] + 100 * q[2] + 10 * q[3] + q[4]
        IN /\ Len(d) < 12 => e = [raw |-> d]
           /\ Len(d) >= 12 =>
                /\ e.keyId = d[1] + 256 * d[2]
                /\ e.lockId = d[4] + 256 * d[5]
                /\ Num(e.time[1]) = 2000 + Bcd(d[6])
                /\ \A i \in 2..6 : Num(e.time[i]) = Bcd(d[5 + i]) /\ Len(e.time[i]) >= 2
                /\ e.event = d[12]
                /\ d[12] > 18 => e.eventName = <<"Unknown", d[12]>>
           /\ d = <<42, 0, 0, 5, 0, 36, 1, 15, 14, 30, 0, 1>> =>
                e = [keyId |-> 42, lockId |-> 5, event |-> 1,
                     eventName |-> <<"Open Success">>,
                     time |-> <<<<2, 0, 2, 4>>, <<0, 1>>, <<1, 5>>, <<1, 4>>, <<2, 4>>,
                                <<0, 0>>>>]
           /\ d = <<42, 0, 0, 5, 0, 36, 1, 21, 20, 48, 0, 1>> =>
                e.time = <<<<2, 0, 2, 4>>, <<0, 1>>, <<1, 5>>, <<1, 4>>, <<3, 0>>, <<0, 0>>>>

(* The payload of the example has been decoded. *)
C25_Witness ==
    /\ codec.stage = "applied" /\ codec.fn = "event"
    /\ codec.args.data = <<42, 0, 0, 5, 0, 36, 1, 15, 14, 30, 0, 1>>
    /\ codec.out.keyId = 42

(* C25 as stated: the payload of the example decodes to the time
   "2024-01-15 14:30:00". *)
C25_ExampleTime1430 ==
    (codec.stage = "applied" /\ codec.fn = "event"
        /\ codec.args.data = <<42, 0, 0, 5, 0, 36, 1, 15, 14, 30, 0, 1>>) =>
        codec.out.time = <<<<2, 0, 2, 4>>, <<0, 1>>, <<1, 5>>, <<1, 4>>, <<3, 0>>, <<0, 0>>>>

(* The table changes only in a step of scan: the clear of line 165 or the
   entries of line 173. *)
C26_ScannedStep ==
    scanned' # scanned =>
        \E t \in Tasks : /\ tk[t].act = "scan" /\ tk[t].pc \in {"L164", "L168"}
                          /\ tk'[t].pc # tk[t].pc

(* While scan discovers, the table is empty, so what it holds afterwards
   is of this scan alone; connect goes to the platform only with an
   address of the table, and reports an address that is not in it with
   one error, no client made and no frame written. *)
C26_ScannedInv ==
    \A t \in Tasks :
        /\ tk[t].pc = "L168" => scanned = {}
        /\ (tk[t].act = "connect" /\ tk[t].pc \in {"L194", "L197"}) =>
               tk[t].msg.address \in scanned
        /\ (tk[t].act = "connect" /\ tk[t].pc = "L191") =>
               /\ tk[t].msg.address \notin scanned
               /\ tk[t].out = <<Error("not in scan results")>>
               /\ client = None /\ ~linkUp /\ tk[t].nWrites = 0

(* C26: the scanned-devices table is changed only by the scan action:
   every scan replaces it, so entries of an earlier scan that the latest
   scan did not find are gone, and no other action changes it; connect
   reads it, and connect(address) with an address that is not in the table
   emits an error without attempting a platform connect. *)
C26_ScannedTable == []C26_ScannedInv /\ [][C26_ScannedStep]_vars

(* connect was called on an authenticated session, whose key had been
   scanned, and finds the address gone from the table after a later scan. *)
C26_Witness ==
    \E t \in Tasks :
        /\ tk[t].act = "connect" /\ tk[t].startAuth
        /\ tk[t].pc = "L191"
        /\ tk[t].out = <<Error("not in scan results")>>

(* The teardown of a closed socket sends nothing, and when it is over the
   session is cleared. *)
C27_TeardownInv ==
    \A t \in Tasks :
        /\ ws = "ended" => tk[t].out = <<>>
        /\ tk[t].pc = "closed" => (Terminal /\ ~linkUp /\ ws = "ended")

(* C27: when the WebSocket of a session closes, the session is torn down:
   the handler's disconnect runs, so that eventually the BLE link is
   closed, the session key is cleared and authenticated is false; and no
   status message (no message at all) is sent for that teardown. *)
C27_CloseTearsDown ==
    /\ []C27_TeardownInv
    /\ (ws = "closed") ~> (ws = "ended" /\ Terminal /\ ~linkUp
                              /\ \E t \in Tasks : tk[t].pc = "closed")

(* The socket of a session whose link was up has closed, the platform
   disconnect has been waited for, and the teardown is over. *)
C27_Witness ==
    /\ ws = "ended" /\ Terminal
    /\ \E t \in Tasks : tk[t].pc = "closed" /\ tk[t].silent /\ tk[t].ret = "closed"

----------------------------------------------------------------------------
(* read_key: what a call has written and emitted so far. *)
C28_ReadKeyInv ==
    \A t \in Tasks :
        tk[t].act = "read_key" =>
            LET nKeyInfo == Len(OutOfType(tk[t], "key_info"))
                nError == Len(OutOfType(tk[t], "error"))
            IN /\ nKeyInfo + nError <= 1
               /\ tk[t].pc = "done" => nKeyInfo + nError = 1
               /\ tk[t].nWrites <= 2
               /\ tk[t].nWrites = 1 => tk[t].w.cmd = GET_KEY_INFO
               /\ tk[t].nWrites = 2 => tk[t].w.cmd = GET_KEY_VERSION
               /\ tk[t].nWrites > 0 => tk[t].startAuth
               /\ nKeyInfo = 1 =>
                      /\ tk[t].nWrites = 2
                      /\ ~InFlight(t)
                      /\ tk[t].ended \in {"response", "short"}

(* read_key: a step in which the call writes a frame.  GET_KEY_INFO is the
   first frame of the call; GET_KEY_VERSION is written when the exchange of
   GET_KEY_INFO has ended with a response. *)
C28_ReadKeyStep ==
    \A t \in Tasks :
        (tk[t].act = "read_key" /\ tk'[t].act = "read_key"
           /\ tk'[t].nWrites = tk[t].nWrites + 1) =>
            /\ ~InFlight(t)
            /\ \/ tk'[t].w.cmd = GET_KEY_INFO /\ tk[t].nWrites = 0
               \/ /\ tk'[t].w.cmd = GET_KEY_VERSION
                  /\ tk[t].nWrites = 1 /\ tk[t].w.cmd = GET_KEY_INFO
                  /\ tk[t].ended = "response"

(* C28: read_key on an authenticated session performs the GET_KEY_INFO
   exchange and then the GET_KEY_VERSION exchange, in that order and never
   overlapping, emits the key_info message only when both exchanges have
   ended, and ends with exactly one of a key_info message or an error
   message. *)
C28_ReadKeyOrder == []C28_ReadKeyInv /\ [][C28_ReadKeyStep]_vars

(* read_key has returned after both exchanges, with its key_info message. *)
C28_Witness ==
    \E t \in Tasks :
        /\ tk[t].act = "read_key" /\ tk[t].pc = "done"
        /\ tk[t].nWrites = 2 /\ tk[t].w.cmd = GET_KEY_VERSION
        /\ Len(OutOfType(tk[t], "key_info")) = 1

----------------------------------------------------------------------------
(* read_events: what a call has written and emitted so far. *)
C29_ReadEventsInv ==
    \A t \in Tasks :
        tk[t].act = "read_events" =>
            LET nEvents == Len(OutOfType(tk[t], "events"))
            IN /\ nEvents <= 1
               /\ nEvents = 1 => /\ EventsEmitted(tk[t])
                                 /\ tk[t].pos = tk[t].count
               /\ tk[t].nWrites = 1 => tk[t].w.cmd = GET_EVENT_COUNT
               /\ tk[t].w.cmd = CLEAN_EVENT =>
                      tk[t].clear /\ tk[t].count > 0 /\ nEvents = 1
               /\ tk[t].pc = "done" =>
                      \/ nEvents = 1
                      \/ /\ Len(OutOfType(tk[t], "error")) = 1
                         /\ tk[t].w.cmd \in {0, GET_EVENT_COUNT}

(* read_events: a step in which the call writes a frame.  GET_EVENT_COUNT
   is the first; GET_EVENT for the next position follows while no events
   message is out; CLEAN_EVENT comes with clear set and the events message
   out. *)
C29_ReadEventsStep ==
    \A t \in Tasks :
        (tk[t].act = "read_events" /\ tk'[t].act = "read_events"
           /\ tk'[t].nWrites = tk[t].nWrites + 1) =>
            /\ ~InFlight(t)
            /\ \/ tk'[t].w.cmd = GET_EVENT_COUNT /\ tk[t].nWrites = 0
               \/ /\ tk'[t].w.cmd = GET_EVENT
                  /\ tk[t].nWrites >= 1
                  /\ tk'[t].pos = Len(tk[t].events) + 1
                  /\ tk'[t].pos <= tk[t].count
                  /\ OutOfType(tk[t], "events") = <<>>
               \/ /\ tk'[t].w.cmd = CLEAN_EVENT
                  /\ tk[t].clear
                  /\ Len(OutOfType(tk[t], "events")) = 1
                  /\ Len(tk[t].events) = tk[t].count

(* C29: read_events performs GET_EVENT_COUNT first, then GET_EVENT for the
   positions 1..N, emits the events message exactly once, after the last
   position, and writes CLEAN_EVENT only when clear was requested and only
   after the events message; without clear it writes no CLEAN_EVENT
   frame. *)
C29_ReadEventsOrder == []C29_ReadEventsInv /\ [][C29_ReadEventsStep]_vars

(* read_events with clear has swept all positions, emitted the events
   message and then written CLEAN_EVENT. *)
C29_Witness ==
    \E t \in Tasks :
        /\ tk[t].act = "read_events" /\ tk[t].clear /\ tk[t].pc = "done"
        /\ tk[t].count = MaxEvents /\ tk[t].w.cmd = CLEAN_EVENT
        /\ Len(OutOfType(tk[t], "events")) = 1

----------------------------------------------------------------------------
(* C30: RayonicsSDK.send_command encrypts under the session key (frame tag
   2) whenever is_authenticated is true and under the system key (frame
   tag 1) otherwise; in every state reached by connect, authenticate,
   set_codes, send_command and disconnect, is_authenticated implies that a
   session key is present, so an authenticated object never sends a
   system-key frame. *)
C30_AuthenticatedHasKey ==
    /\ sdk.authenticated => sdk.session_key # NoKey
    /\ sdk.sent.auth => sdk.sent.tag = 2 /\ sdk.sent.key.kind = "session"
    /\ (sdk.sent # NoSent /\ ~sdk.sent.auth) =>
           sdk.sent.tag = 1 /\ sdk.sent.key = AES_KEY

----------------------------------------------------------------------------
(* The flag is set only beside a key and a client. *)
C31_AuthInv ==
    authenticated => (session_key # NoKey /\ client # None)

(* A step that drops the client, the key or the flag leaves neither key nor
   flag. *)
C31_CloseStep ==
    (\/ client # None /\ client' = None
     \/ session_key # NoKey /\ session_key' = NoKey
     \/ authenticated /\ ~authenticated')
        => (session_key' = NoKey /\ ~authenticated')

(* C31: in every reachable state of a BLEHandler session authenticated
   implies that a session key is set and a client is present; every path
   that closes the session clears the session key and the flag together. *)
C31_AuthenticatedHasKey == []C31_AuthInv /\ [][C31_CloseStep]_vars

(* An authenticated session has been closed. *)
C31_Witness ==
    /\ Terminal
    /\ \E t \in Tasks : tk[t].startAuth /\ tk[t].act \in {"disconnect", "connect"}
                          /\ tk[t].pc = "done"

----------------------------------------------------------------------------
(* authenticate: the CONNECT frames of the current or last call. *)
C32_RetryInv ==
    sdk.act = "authenticate" =>
        LET differ == sdk.syscode # DEFAULT_SYSCODE \/ sdk.regcode # DEFAULT_REGCODE
            returned == sdk.pc = "idle" /\ sdk.ret \in {"True", "False"}
        IN /\ sdk.nConnect <= 2
           /\ sdk.retried => /\ sdk.try_defaults /\ differ
                             /\ sdk.try_sys = DEFAULT_SYSCODE
                             /\ sdk.try_reg = DEFAULT_REGCODE
           /\ sdk.nConnect = 2 => sdk.retried
           /\ (~sdk.try_defaults \/ ~differ) => sdk.nConnect <= 1
           /\ returned => sdk.nConnect >= 1
           /\ (returned /\ sdk.ret = "False" /\ sdk.try_defaults /\ differ) =>
                  sdk.nConnect = 2
           /\ (returned /\ sdk.ret = "True") =>
                  /\ sdk.authenticated
                  /\ sdk.session_key.kind = "session"
                  /\ sdk.session_key.sys = sdk.try_sys

(* authenticate: the retry starts where the first _try_connect returns
   False: from the wait for the CONNECT response or for the VERIFY
   response of the first attempt, with one CONNECT frame written. *)
C32_RetryStep ==
    (sdk.act = "authenticate" /\ ~sdk.retried /\ sdk'.retried) =>
        /\ sdk.pc \in {"L442", "L523"}
        /\ sdk.nConnect = 1
        /\ sdk'.pc = "L439"
        /\ sdk'.authenticated = sdk.authenticated

(* C32: one call of RayonicsSDK.authenticate(try_defaults=True) writes at
   most two CONNECT frames, the second with the default codes and only when
   the first attempt failed and the configured codes differ from the
   defaults; with try_defaults=False, or with the default codes configured,
   one CONNECT frame is written; a retry that succeeds leaves the session
   key derived from the default system code. *)
C32_RetryOnce == []C32_RetryInv /\ [][C32_RetryStep]_vars

(* The retry with the default codes has succeeded. *)
C32_Witness ==
    /\ sdk.act = "authenticate" /\ sdk.pc = "idle" /\ sdk.ret = "True"
    /\ sdk.retried /\ sdk.nConnect = 2
    /\ sdk.syscode = SYSCODE
    /\ sdk.session_key.kind = "session" /\ sdk.session_key.sys = DEFAULT_SYSCODE

----------------------------------------------------------------------------
(* connect has reported that the address is not in the scan results: the
   session is the one disconnect leaves. *)
C33_TornDownInv ==
    \A t \in Tasks :
        (/\ tk[t].act = "connect"
         /\ \E i \in DOMAIN tk[t].out : tk[t].out[i] = Error("not in scan results"))
            => /\ Terminal /\ ~linkUp
               /\ tk[t].pc \in {"L191", "done"}
               /\ tk[t].nConnect = 0 /\ tk[t].nWrites = 0

(* A step of a connect call leaves the scanned table as it is. *)
C33_ScannedStep ==
    (\E t \in Tasks : tk'[t].act = "connect" /\ tk'[t] # tk[t])
        => scanned' = scanned

(* C33: connect tears the existing session down before it looks the address
   up: after a connect(address) that fails because the address is not in
   the scanned table, a session that was authenticated is gone (no client,
   no session key, authenticated false), and the scanned table is
   unchanged. *)
C33_ConnectTearsDownFirst == []C33_TornDownInv /\ [][C33_ScannedStep]_vars

(* connect on an authenticated session has failed at the lookup. *)
C33_Witness ==
    \E t \in Tasks :
        /\ tk[t].act = "connect" /\ tk[t].startAuth /\ tk[t].pc = "done"
        /\ tk[t].out = <<Error("not in scan results")>>
        /\ Terminal

----------------------------------------------------------------------------
(* C34: read_events with clear=true never writes CLEAN_EVENT when a
   position of the sweep was recorded as an error: the events are erased
   from the key only if all N reported events were read and decoded. *)
C34_ClearOnlyAfterCleanSweep ==
    \A t \in Tasks :
        (tk[t].act = "read_events" /\ tk[t].w.cmd = CLEAN_EVENT) =>
            \A i \in DOMAIN tk[t].events : tk[t].events[i].kind = "event"

----------------------------------------------------------------------------
(* A call of handle is under way / is over: it has returned, or
   ConnectionClosed has left it on a closed socket. *)
C35_Running(t) == tk[t].pc \notin {"idle", "done", "escaped", "closed"}
C35_Over(t) == tk[t].pc \in {"done", "escaped", "closed"}

(* A call of handle that has returned has emitted a message. *)
C35_EmittedInv ==
    \A t \in Tasks : tk[t].pc = "done" => Len(tk[t].out) >= 1

(* C35: when every platform call returns or raises and the device answers
   or stays silent, every action passed to BLEHandler.handle terminates,
   each exchange ending by its response or its timeout, and has emitted at
   least one message; read_events terminates for every event count. *)
C35_HandleTerminates ==
    /\ []C35_EmittedInv
    /\ \A t \in Tasks : C35_Running(t) ~> C35_Over(t)

(* read_events has returned after a sweep in which the key stayed silent. *)
C35_Witness ==
    \E t \in Tasks :
        /\ tk[t].act = "read_events" /\ tk[t].pc = "done"
        /\ tk[t].count = MaxEvents /\ Len(tk[t].events) = MaxEvents
        /\ tk[t].ended = "timeout" /\ Len(tk[t].out) >= 1

----------------------------------------------------------------------------
(* C36: RayonicsSDK.disconnect always leaves the object with no client, no
   device, authenticated false and no session key, also when the platform
   disconnect fails; the same at the exit of an "async with" block. *)
C36_DisconnectClears ==
    (sdk.act = "disconnect" /\ sdk.pc = "idle") =>
        /\ ~sdk.client /\ ~sdk.device
        /\ ~sdk.authenticated /\ sdk.session_key = NoKey

----------------------------------------------------------------------------
(* C37: WebServer.ble_active is true only while a BLE action is being
   handled: once the handling of an action has finished, with a result
   message, with log messages only or with an error message, ble_active is
   false. *)
C37_IdleMeansInactive ==
    (\A t \in Tasks : tk[t].pc \in {"idle", "done"}) => ~web.ble_active

----------------------------------------------------------------------------
(* C38: a start() issued after stop() always leads to a running server
   again: under any interleaving of the stopping thread's cleanup with the
   new start() call the server eventually reaches running = true (unless
   the port is in use). *)
C38_RestartRuns ==
    web.asked ~> (web.running \/ web.port_error \/ ~web.asked)

============================================================================
